---- MODULE Spec2Model ----
(***************************************************************************)
(* Market-breadth pipeline (MBI): per-symbol bar series, trailing windows, *)
(* date-wise consolidation, breadth ledger and the three pipeline modes.   *)
(*                                                                         *)
(* Dates are day numbers (day 1 is a Monday).  A datetime is a record      *)
(* [day, tod, tz]: calendar day, minutes after midnight, and "IST" for a   *)
(* timezone-aware value or "naive" for a value without tzinfo.  A date     *)
(* string such as "2024-03-15" is the day number alone.  Prices are        *)
(* integers; a mean is the exact fraction [num, den].                      *)
(***************************************************************************)
EXTENDS Integers, Sequences, FiniteSets, TLC

VARIABLES
    now,        \* get_current_ist_time(): the current IST datetime
    holidays,   \* the holiday supply: the days get_nse_holidays yields
    stocks,     \* data/raw/stocks: cohort -> stock CSV file
    daily,      \* data/raw/daily: day -> consolidated CSV file
    ledger,     \* data/processed/market_breadth.csv
    basis,      \* history: day -> row count of the snapshot its ledger record was computed from
    lastCmd,    \* history: the last command and its outcome
    pc,         \* concurrent upserts: writer -> its position in append_breadth_metrics
    mem,        \* writer -> the merged frame it holds in memory (df_breadth)
    job,        \* writer -> the day it upserts
    seen,       \* what a concurrent reader last found in the ledger file
    committed,  \* history: the complete ledgers (before and after each upsert)
    wFile,      \* SeriesWindow harness: one symbol's stored series (stock CSV)
    wRef,       \* the reference datetime the harness consolidates for
    wRows,      \* the rows consolidate_date emitted for wRef, oldest first
    wGrown,     \* number of later-dated batches appended since Init
    bOut,       \* BreadthEngine harness: what calculate_breadth_metrics returned
    kOut        \* calendar harness: the last calendar call and what it returned

pvars == <<now, holidays, stocks, daily, ledger, basis, lastCmd>>

cvars == <<pc, mem, job, seen, committed>>

wvars == <<wFile, wRef, wRows, wGrown>>

hvars == <<bOut, kOut>>

vars == <<now, holidays, stocks, daily, ledger, basis, lastCmd,
          pc, mem, job, seen, committed, wFile, wRef, wRows, wGrown, bOut, kOut>>

----------------------------------------------------------------------------
(* Program constants                                                       *)

SMA_PERIODS == <<10, 20, 50, 200>>

MIN_VALID_STOCKS == 350

HISTORICAL_DAYS == 365

\* DAILY_CHANGE_THRESHOLD = 4.5, in tenths of a percent
DAILY_CHANGE_THRESHOLD_X10 == 45

\* the safety limit of the calendar walks
max_attempts == 30

TRAILING_WINDOW == 252

\* a float cell is the exact fraction [num, den]; NaN ("not available") has den = 0
NaN == [num |-> 0, den |-> 0]

Num(v) == [num |-> v, den |-> 1]

\* a CSV file: absent, or present with its rows
NoFile == [exists |-> FALSE, rows |-> <<>>]

File(rows) == [exists |-> TRUE, rows |-> rows]

----------------------------------------------------------------------------
(* Generic helpers                                                         *)

Range(s) == {s[i] : i \in 1..Len(s)}

Min2(a, b) == IF a <= b THEN a ELSE b

Max2(a, b) == IF a >= b THEN a ELSE b

SetMax(S) == CHOOSE x \in S : \A y \in S : y <= x

SetMin(S) == CHOOSE x \in S : \A y \in S : x <= y

RECURSIVE SumTo(_, _, _)
SumTo(f, lo, hi) ==
    IF hi < lo THEN 0
    ELSE IF hi = lo THEN f[lo]
    ELSE LET mid == (lo + hi) \div 2 IN SumTo(f, lo, mid) + SumTo(f, mid + 1, hi)

DT(day, tod, tz) == [day |-> day, tod |-> tod, tz |-> tz]

\* datetime.date() / strftime("%Y-%m-%d") / Timestamp(...).normalize(): the calendar day
DateOf(dt) == dt.day

----------------------------------------------------------------------------
(* pandas building blocks, on a frame = sequence of row records            *)

\* a frame is held as an explicit tuple of rows, each row computed once
Materialize(f) == f \o <<>>

\* df.sort_values("Date"); rows with equal dates keep their order
SortNoByDate(df) == df

SortByDate(df) ==
    LET n     == Len(df)
        dates == Materialize([j \in 1..n |-> df[j].Date])
        rank  == Materialize([j \in 1..n |->
                    Cardinality({k \in 1..n : \/ dates[k] < dates[j]
                                              \/ (dates[k] = dates[j] /\ k < j)}) + 1])
        inv   == Materialize([i \in 1..n |-> CHOOSE j \in 1..n : rank[j] = i])
    IN  Materialize([i \in 1..n |-> df[inv[i]]])

\* df.tail(k)
TailRowsAll(df, k) == df

TailRows(df, k) == IF Len(df) <= k THEN df ELSE SubSeq(df, Len(df) - k + 1, Len(df))

\* df.drop_duplicates(subset=["Date"], keep="last")
DropDuplicatesNone(df) == df

DropDuplicatesKeepLast(df) ==
    LET n     == Len(df)
        dates == Materialize([j \in 1..n |-> df[j].Date])
        last  == Materialize([i \in 1..n |-> \A j \in (i + 1)..n : dates[j] # dates[i]])
        idx   == SelectSeq(Materialize([i \in 1..n |-> i]), LAMBDA i : last[i])
    IN  Materialize([r \in 1..Len(idx) |-> df[idx[r]]])

----------------------------------------------------------------------------
(* date_consolidator.calculate_sma                                         *)

\* Series.rolling(window=p, min_periods=mp).mean() at row i of closes x:
\* the window holds the last min(i, p) observations, the mean is undefined
\* while it holds fewer than mp.
RollingMeanStrict(x, p, mp, i) ==
    LET cnt == Min2(i, p)
    IN  IF cnt < p THEN NaN
        ELSE [num |-> SumTo(x, i - cnt + 1, i), den |-> cnt]

RollingMean(x, p, mp, i) ==
    LET cnt == Min2(i, p)
    IN  IF cnt < mp THEN NaN
        ELSE [num |-> SumTo(x, i - cnt + 1, i), den |-> cnt]

\* calculate_sma: sort by date, add one SMA column per period
\* (min_periods=1); the SMA cell of a row is the tuple of its SMA columns
calculate_sma(df, periods) ==
    LET Columns(sorted, closes) ==
            Materialize([i \in 1..Len(sorted) |->
                [Date |-> sorted[i].Date, Open |-> sorted[i].Open, High |-> sorted[i].High,
                 Low |-> sorted[i].Low, Close |-> sorted[i].Close,
                 Volume |-> sorted[i].Volume,
                 SMA |-> Materialize([k \in 1..Len(periods) |->
                                         RollingMean(closes, periods[k], 1, i)])]])
        Closes(sorted) ==
            Columns(sorted, Materialize([j \in 1..Len(sorted) |-> sorted[j].Close]))
    IN  Closes(SortByDate(df))

----------------------------------------------------------------------------
(* date_consolidator.calculate_52week_high_low                             *)

NoDateFilter(df, ref_ts) == df

\* df[df["Date"].dt.normalize() <= ref_ts]
AtOrBefore(df, ref_ts) == SelectSeq(df, LAMBDA r : r.Date <= ref_ts)

\* df_year["High"].max(), df_year["Low"].min()
HighLowOfCloses(df_year) ==
    <<Num(SetMax({df_year[i].Close : i \in 1..Len(df_year)})),
      Num(SetMin({df_year[i].Close : i \in 1..Len(df_year)}))>>

HighLow(df_year) ==
    <<Num(SetMax({df_year[i].High : i \in 1..Len(df_year)})),
      Num(SetMin({df_year[i].Low : i \in 1..Len(df_year)}))>>

calculate_52week_high_low(df, reference_date) ==
    LET sorted  == SortByDate(df)
        ref_ts  == DateOf(reference_date)
        upto    == AtOrBefore(sorted, ref_ts)
        Extremes(df_year) ==
            IF df_year = <<>> THEN <<NaN, NaN>>
            ELSE HighLow(df_year)
    IN  Extremes(TailRows(upto, TRAILING_WINDOW))

----------------------------------------------------------------------------
(* date_consolidator.consolidate_date, the body of the per-symbol loop     *)

\* df[df["Date"].dt.normalize() == target_date]
UpToTargetDate(df, target_date) == SelectSeq(df, LAMBDA r : r.Date <= target_date)

OnTargetDate(df, target_date) == SelectSeq(df, LAMBDA r : r.Date = target_date)

\* df is what load_stock_data returned: NoFile (None) or a file with its frame.
\* The result is the list of rows the symbol contributes: none (skipped) or one.
ConsolidateSymbol(symbol, df, date) ==
    IF ~df.exists \/ df.rows = <<>> THEN <<>>
    ELSE
        LET target_date == DateOf(date)
            Emit(row, hl) ==
                <<[Symbol |-> symbol, Open |-> row.Open, High |-> row.High,
                   Low |-> row.Low, Close |-> row.Close, Volume |-> row.Volume,
                   High_52W |-> hl[1], Low_52W |-> hl[2], SMA |-> row.SMA]>>
            OnDate(with_sma, df_date) ==
                IF df_date = <<>> THEN <<>>
                ELSE Emit(df_date[1], calculate_52week_high_low(with_sma, date))
            Select(with_sma) ==
                OnDate(with_sma, OnTargetDate(with_sma, target_date))
        IN  Select(calculate_sma(df.rows, SMA_PERIODS))

----------------------------------------------------------------------------
(* yfinance_fetcher.append_stock_data / save_stock_data / load_stock_data  *)

\* df: the Date/OHLCV rows of a fetched batch; the result is the new CSV
append_stock_data(file, df) ==
    IF file.exists
    THEN File(SortByDate(DropDuplicatesKeepLast(file.rows \o df)))
    ELSE File(df)

load_stock_data(file) == file

----------------------------------------------------------------------------
(* holiday_checker: the trading calendar                                   *)

\* datetime.weekday(): 0 is Monday; day 1 is a Monday
weekday(dt) == (dt.day - 1) % 7

\* dt.replace(hour=0, minute=0, second=0, microsecond=0)
Normalize(dt) == [dt EXCEPT !.tod = 0]

\* dt + timedelta(days=k)
AddDays(dt, k) == [dt EXCEPT !.day = @ + k]

\* if date.tzinfo is None: date = date.replace(tzinfo=IST)
EnsureIST(dt) == IF dt.tz = "naive" THEN [dt EXCEPT !.tz = "IST"] ELSE dt

\* get_nse_holidays: the supplied days as IST midnights
get_nse_holidays(hol) == {DT(h, 0, "IST") : h \in hol}

\* the offset of a timezone from UTC, in minutes
utcoffset(tz) == IF tz = "UTC" THEN 0 ELSE 330

\* the position of an aware datetime on the UTC time line, in minutes
Instant(dt) == dt.day * 1440 + dt.tod - utcoffset(dt.tz)

\* a == b on aware datetimes: of the same timezone by their fields, of
\* different timezones by their instants
DtEq(a, b) ==
    IF a.tz = b.tz THEN a.day = b.day /\ a.tod = b.tod
    ELSE Instant(a) = Instant(b)

is_weekday(date, hol) == weekday(EnsureIST(date)) < 5

is_trading_day(date, hol) ==
    LET d == EnsureIST(date)
    IN  IF weekday(d) >= 5 THEN FALSE
        ELSE ~ \E h \in get_nse_holidays(hol) : DtEq(Normalize(d), Normalize(h))

\* attempts < max_attempts, the safety limit of the walks
WithinLimitAndOne(attempts) == attempts < max_attempts + 1

WithinLimit(attempts) == attempts < max_attempts

\* the walk of get_previous_trading_day: <<day reached, attempts used>>
RECURSIVE WalkBack(_, _, _)
WalkBack(prev_day, attempts, hol) ==
    IF ~is_trading_day(prev_day, hol) /\ WithinLimit(attempts)
    THEN WalkBack(AddDays(prev_day, -1), attempts + 1, hol)
    ELSE <<prev_day, attempts>>

\* what the walks return: the day reached as it is when the attempts ran
\* out, else the day reached at midnight
WalkResult(w) == IF w[2] >= max_attempts THEN w[1] ELSE Normalize(w[1])

get_previous_trading_day(date, hol) ==
    WalkResult(WalkBack(AddDays(EnsureIST(date), -1), 0, hol))

\* the walk of get_next_trading_day: <<day reached, attempts used>>
RECURSIVE WalkAhead(_, _, _)
WalkAhead(next_day, attempts, hol) ==
    IF ~is_trading_day(next_day, hol) /\ WithinLimit(attempts)
    THEN WalkAhead(AddDays(next_day, 1), attempts + 1, hol)
    ELSE <<next_day, attempts>>

get_next_trading_day(date, hol) ==
    WalkResult(WalkAhead(AddDays(EnsureIST(date), 1), 0, hol))

\* a <= b on datetimes of the same timezone awareness: of the same timezone
\* by their fields, of different timezones by their instants
DtLe(a, b) ==
    IF a.tz = b.tz \/ a.tz = "naive" \/ b.tz = "naive"
    THEN a.day < b.day \/ (a.day = b.day /\ a.tod <= b.tod)
    ELSE Instant(a) <= Instant(b)

\* comparing a tz-naive with a tz-aware datetime raises TypeError
Comparable(a, b) == (a.tz = "naive") <=> (b.tz = "naive")

get_trading_days_in_range(start_date, end_date, hol) ==
    LET span == IF DtLe(start_date, end_date)
                THEN (end_date.day - start_date.day) + 1 ELSE 0
        cand == Materialize([i \in 1..span |-> AddDays(start_date, i - 1)])
    IN  SelectSeq(cand, LAMBDA c : DtLe(c, end_date) /\ is_trading_day(c, hol))

----------------------------------------------------------------------------
(* The symbol universe and the market data behind yfinance                 *)
(*                                                                         *)
(* The 400 constituents are partitioned into cohorts of symbols that share *)
(* a data feed and hence an identical series; a row of a consolidated frame*)
(* carries in n the number of identical per-symbol rows it stands for.     *)

CohortSize == <<340, 10, 50>>

Cohorts == 1..Len(CohortSize)

\* get_symbols_list(), cohort by cohort
symbols == Materialize([c \in Cohorts |-> c])

\* the exchange is open on weekdays; its history starts on day 1
MarketOpen(d) == d >= 1 /\ (d - 1) % 7 < 5

\* the third cohort is suspended on day 4
Traded(c, d) == MarketOpen(d) /\ ~(c = 3 /\ d = 4)

MarketBar(c, d) ==
    LET o  == 100
        cl == 100 + 5 * (((c + 1) * d) % 3) - 5
    IN  [Date |-> d, Open |-> o, High |-> Max2(o, cl) + 1, Low |-> Min2(o, cl) - 1,
         Close |-> cl, Volume |-> 1000 * c]

\* ticker.history(start, end): the daily bars stamped in [start, end) that
\* exist by today, ascending
FetchBars(c, start_date, end_date, today) ==
    LET lo   == IF start_date.tod > 0 THEN start_date.day + 1 ELSE start_date.day
        hi   == IF end_date.tod > 0 THEN end_date.day ELSE end_date.day - 1
        from == Max2(lo, 1)
        to   == Min2(hi, today.day)
        cand == Materialize([i \in 1..Max2(to - from + 1, 0) |-> from + i - 1])
        days == SelectSeq(cand, LAMBDA d : Traded(c, d))
    IN  Materialize([i \in 1..Len(days) |-> MarketBar(c, days[i])])

\* fetch_stock_data: None (the empty frame here) when the attempts fail or
\* the response is empty, else the rows
fetch_stock_data(c, start_date, end_date, today, up) ==
    IF c \in up THEN FetchBars(c, start_date, end_date, today) ELSE <<>>

----------------------------------------------------------------------------
(* date_consolidator.consolidate_date and the consolidated daily files     *)

\* len(df)
FrameLen(df) == SumTo([i \in 1..Len(df) |-> df[i].n], 1, Len(df))

\* (mask).sum(): the number of rows whose mask entry is True
CountRows(df, mask) ==
    SumTo([i \in 1..Len(df) |-> IF mask[i] THEN df[i].n ELSE 0], 1, Len(df))

RECURSIVE ConcatAll(_)
ConcatAll(ss) == IF ss = <<>> THEN <<>> ELSE Head(ss) \o ConcatAll(Tail(ss))

consolidate_date(date, syms, stockDir) ==
    LET Rows(symbol, one) ==
            IF one = <<>> THEN <<>> ELSE <<one[1] @@ [n |-> CohortSize[symbol]]>>
    IN  ConcatAll(Materialize([k \in 1..Len(syms) |->
            Rows(syms[k],
                 ConsolidateSymbol(syms[k], load_stock_data(stockDir[syms[k]]), date))]))

\* the new content of data/raw/daily
create_daily_consolidated_file(date, syms, stockDir, dailyDir) ==
    LET Write(df) ==
            IF df = <<>> THEN dailyDir
            ELSE [dailyDir EXCEPT ![DateOf(date)] = File(df)]
    IN  Write(consolidate_date(date, syms, stockDir))

\* None is NoFile
load_daily_consolidated(date, dailyDir) ==
    IF DateOf(date) \in DOMAIN dailyDir THEN dailyDir[DateOf(date)] ELSE NoFile

----------------------------------------------------------------------------
(* breadth_calculator.calculate_breadth_metrics                            *)

\* what a field holds when a quotient was taken with a zero divisor
ZeroDivision == -1

\* round(numer / denom, 2) in hundredths: an exact tie goes to the even
\* neighbour.  The double quotient rounds as the exact one for all counts up
\* to 400 unless the divisor is a multiple of 40.
Round2(numer, denom) ==
    IF denom = 0 THEN ZeroDivision
    ELSE LET q == (100 * numer) \div denom
             r == (100 * numer) % denom
         IN  IF 2 * r < denom THEN q
             ELSE IF 2 * r > denom THEN q + 1
             ELSE IF q % 2 = 0 THEN q ELSE q + 1

\* the fractions k/160 whose percentage is a tie that the double product
\* (count / total) * 100 misses: it rounds to the odd neighbour
InexactTies == {23, 49, 51, 87, 93}

\* round((count / total_stocks) * 100, 2)
Pct(count, total_stocks) ==
    IF \E k \in InexactTies : 160 * count = k * total_stocks /\ total_stocks # 0
    THEN 2 * (((10000 * count) \div total_stocks) \div 2) + 1
    ELSE Round2(100 * count, total_stocks)

\* comparisons of an integer cell with a float cell; any comparison with NaN is False
GtFOrEqual(v, f) == f.den # 0 /\ v * f.den >= f.num

GtF(v, f) == f.den # 0 /\ v * f.den > f.num

LtF(v, f) == f.den # 0 /\ v * f.den < f.num

GeF(v, f) == f.den # 0 /\ v * f.den >= f.num

LeF(v, f) == f.den # 0 /\ v * f.den <= f.num

\* the base of Daily_Change_Pct: Prev_Close with 0 replaced by NaN when the
\* row has the cell; where that leaves NaN, Open with 0 replaced by NaN.
\* 0 stands for no base.
ChangeBaseOpen(r) == r.Open

ChangeBase(r) ==
    IF "Prev_Close" \in DOMAIN r
    THEN (IF r.Prev_Close.den # 0 /\ r.Prev_Close.num # 0
          THEN r.Prev_Close.num ELSE r.Open)
    ELSE r.Open

\* TRUE when Daily_Change_Pct is above (dir = 1) or below (dir = -1) the
\* threshold; a row without a base has NaN, which is neither
ChangeBeyond(r, dir) ==
    LET base == ChangeBase(r)
        diff == 1000 * (r.Close - base)
        thr  == DAILY_CHANGE_THRESHOLD_X10 * base
    IN  IF base = 0 THEN FALSE
        ELSE IF base > 0
             THEN (IF dir = 1 THEN diff > thr ELSE diff < -thr)
             ELSE (IF dir = 1 THEN diff < thr ELSE diff > -thr)

\* a date string "YYYY-MM-DD"
Str(day) == [str |-> day]

\* if total_stocks == 0: return {}
NoStocksNever(total_stocks) == FALSE

NoStocks(total_stocks) == total_stocks = 0

\* 4.5r: round(up / down, 2) when there are down-movers, else 0.0 or 99.99
Ratio45Unguarded(up_4_5, down_4_5) == Round2(up_4_5, down_4_5)

Ratio45(up_4_5, down_4_5) ==
    IF down_4_5 > 0 THEN Round2(up_4_5, down_4_5)
    ELSE IF up_4_5 = 0 THEN 0 ELSE 9999

\* the empty dict is <<>>, a metrics dict is <<record>>
calculate_breadth_metrics(df, date) ==
    LET at_52w_high == CountRows(df, [i \in 1..Len(df) |-> GeF(df[i].Close, df[i].High_52W)])
        at_52w_low  == CountRows(df, [i \in 1..Len(df) |-> LeF(df[i].Close, df[i].Low_52W)])
        above == Materialize([k \in 1..Len(SMA_PERIODS) |->
                     CountRows(df, [i \in 1..Len(df) |-> GtF(df[i].Close, df[i].SMA[k])])])
        below == Materialize([k \in 1..Len(SMA_PERIODS) |->
                     CountRows(df, [i \in 1..Len(df) |-> LtF(df[i].Close, df[i].SMA[k])])])
        Metrics(total_stocks, up_4_5, down_4_5, sma_above, sma_below) ==
            IF NoStocks(total_stocks) THEN <<>>
            ELSE <<[Date   |-> Str(DateOf(date)),
                    WH52   |-> Pct(at_52w_high, total_stocks),
                    WL52   |-> Pct(at_52w_low, total_stocks),
                    Up45   |-> Pct(up_4_5, total_stocks),
                    Down45 |-> Pct(down_4_5, total_stocks),
                    P10    |-> Pct(sma_above[1], total_stocks),
                    M10    |-> Pct(sma_below[1], total_stocks),
                    P20    |-> Pct(sma_above[2], total_stocks),
                    M20    |-> Pct(sma_below[2], total_stocks),
                    P50    |-> Pct(sma_above[3], total_stocks),
                    M50    |-> Pct(sma_below[3], total_stocks),
                    P200   |-> Pct(sma_above[4], total_stocks),
                    M200   |-> Pct(sma_below[4], total_stocks),
                    R45    |-> Ratio45(up_4_5, down_4_5),
                    Sma20  |-> sma_above[2],
                    Sma50  |-> sma_above[3]]>>
    IN  Metrics(FrameLen(df),
                CountRows(df, [i \in 1..Len(df) |-> ChangeBeyond(df[i], 1)]),
                CountRows(df, [i \in 1..Len(df) |-> ChangeBeyond(df[i], -1)]),
                above, below)

----------------------------------------------------------------------------
(* breadth_calculator: the ledger file                                     *)

\* pd.to_datetime of a cell: a date string parses to a naive midnight
to_datetime(cell) == IF "str" \in DOMAIN cell THEN DT(cell.str, 0, "naive") ELSE cell

\* Series.dt.strftime("%Y-%m-%d")
strftime(dt) == Str(DateOf(dt))

\* the position of a Timestamp on the time line, in minutes
Ordinal(dt) == dt.day * 1440 + dt.tod

\* df["Date"] = pd.to_datetime(df["Date"])
ParseDates(df) ==
    Materialize([i \in 1..Len(df) |-> [df[i] EXCEPT !.Date = to_datetime(df[i].Date)]])

\* df["Date"] = df["Date"].dt.strftime("%Y-%m-%d")
FormatDates(df) ==
    Materialize([i \in 1..Len(df) |-> [df[i] EXCEPT !.Date = strftime(df[i].Date)]])

save_breadth_data(df) == File(df)

\* None is NoFile; the Date column is parsed to datetimes
load_breadth_data(ledgerFile) ==
    IF ~ledgerFile.exists THEN NoFile
    ELSE File(ParseDates(ledgerFile.rows))

KeepAllDates(df_breadth, date_str) == df_breadth

\* df_breadth[df_breadth["Date"] != date_str]
RemoveDate(df_breadth, date_str) ==
    SelectSeq(df_breadth, LAMBDA r : r.Date # to_datetime(date_str))

SortLedgerNone(df) == df

\* df_breadth.sort_values("Date") on parsed dates; equal dates keep their order
SortLedger(df) ==
    LET n    == Len(df)
        key  == Materialize([j \in 1..n |-> Ordinal(df[j].Date)])
        rank == Materialize([j \in 1..n |->
                    Cardinality({k \in 1..n : \/ key[k] < key[j]
                                              \/ (key[k] = key[j] /\ k < j)}) + 1])
        inv  == Materialize([i \in 1..n |-> CHOOSE j \in 1..n : rank[j] = i])
    IN  Materialize([i \in 1..n |-> df[inv[i]]])

ReplaceLedger(df_breadth, metrics, date) == <<metrics>>

\* the else branch of append_breadth_metrics: remove, append, sort, format
MergeRecord(df_breadth, metrics, date) ==
    LET date_str == strftime(date)
        kept     == RemoveDate(df_breadth, date_str)
        combined == kept \o <<metrics>>
        parsed   == ParseDates(combined)
        sorted   == SortLedger(parsed)
    IN  FormatDates(sorted)

\* BREADTH_COLUMNS, by the names of the record fields
BREADTH_COLUMNS ==
    <<"Date", "WH52", "WL52", "Up45", "Down45", "P10", "M10", "P20", "M20", "P50", "M50",
      "P200", "M200", "R45", "Sma20", "Sma50">>

\* the columns of pd.DataFrame([metrics]): the keys of the metrics dict in
\* the order calculate_breadth_metrics inserts them
MetricsColumns ==
    <<"Date", "WH52", "WL52", "Up45", "Down45", "R45", "P10", "M10", "P20", "M20", "P50",
      "M50", "P200", "M200", "Sma20", "Sma50">>

\* the columns of pd.concat([a, b]): those of a, then the new ones of b
ConcatColumns(a, b) == a \o SelectSeq(b, LAMBDA col : col \notin Range(a))

\* the columns of df_breadth[BREADTH_COLUMNS]
SelectColumnsNone(columns, wanted) == columns

SelectColumns(columns, wanted) == wanted

\* the columns read_csv gives for the ledger file: the header that
\* append_breadth_metrics wrote
LedgerColumns(ledgerFile) == BREADTH_COLUMNS

\* the new ledger file and the new history of snapshot sizes, as a pair;
\* wrote tells whether the ledger was saved, columns is the header saved
append_breadth_metrics(date, dailyDir, ledgerFile, sizes) ==
    LET Merged(df_breadth, metrics) ==
            IF ~df_breadth.exists THEN <<metrics[1]>>
            ELSE MergeRecord(df_breadth.rows, metrics[1], date)
        Upserted(df, metrics) ==
            IF ~df.exists \/ df.rows = <<>> \/ metrics = <<>>
            THEN [ledger |-> ledgerFile, basis |-> sizes, wrote |-> FALSE, columns |-> <<>>]
            ELSE [ledger  |-> save_breadth_data(Merged(load_breadth_data(ledgerFile), metrics)),
                  basis   |-> [sizes EXCEPT ![DateOf(date)] = FrameLen(df.rows)],
                  wrote   |-> TRUE,
                  columns |-> SelectColumns(
                                  IF ~ledgerFile.exists THEN MetricsColumns
                                  ELSE ConcatColumns(LedgerColumns(ledgerFile), MetricsColumns),
                                  BREADTH_COLUMNS)]
        Calculate(df) ==
            Upserted(df, IF df.exists THEN calculate_breadth_metrics(df.rows, date) ELSE <<>>)
    IN  Calculate(load_daily_consolidated(date, dailyDir))

\* the dates of the records in the ledger file
LedgerDays(file) == {file.rows[i].Date.str : i \in 1..Len(file.rows)}

\* None is <<>>, else <<the latest Timestamp>>
get_latest_breadth_date(ledgerFile) ==
    LET Latest(df) ==
            IF ~df.exists \/ df.rows = <<>> THEN <<>>
            ELSE <<CHOOSE t \in {df.rows[i].Date : i \in 1..Len(df.rows)} :
                       \A i \in 1..Len(df.rows) : Ordinal(df.rows[i].Date) <= Ordinal(t)>>
    IN  Latest(load_breadth_data(ledgerFile))

----------------------------------------------------------------------------
(* main: the pipeline modes, on the files P = [stocks, daily, ledger, basis]*)

\* the fetch loop over the symbols: the new stock files and success_count;
\* up is the set of cohorts whose fetch returns rows
FetchAll(stockDir, start_date, end_date, today, up) ==
    LET Store(got) ==
            [stocks  |-> Materialize([c \in Cohorts |->
                             IF got[c] # <<>> THEN append_stock_data(stockDir[c], got[c])
                             ELSE stockDir[c]]),
             success |-> SumTo([c \in Cohorts |->
                                   IF got[c] # <<>> THEN CohortSize[c] ELSE 0],
                               1, Len(CohortSize))]
    IN  Store(Materialize([c \in Cohorts |->
                              fetch_stock_data(c, start_date, end_date, today, up)]))

\* create_daily_consolidated_file(date, symbols); append_breadth_metrics(date)
ProcessDate(P, date) ==
    LET Result(dailyDir, up) ==
            [stocks |-> P.stocks, daily |-> dailyDir, ledger |-> up.ledger,
             basis |-> up.basis]
        Breadth(dailyDir) ==
            Result(dailyDir, append_breadth_metrics(date, dailyDir, P.ledger, P.basis))
    IN  Breadth(create_daily_consolidated_file(date, symbols, P.stocks, P.daily))

\* a date the loop body can act on: some stock file holds a bar of that day
\* or its daily file exists.  For any other date consolidate_date returns the
\* empty frame and load_daily_consolidated returns None: the files stay as
\* they are.
HasData(P, date) ==
    \/ \E c \in Cohorts : \E i \in 1..Len(P.stocks[c].rows) :
           P.stocks[c].rows[i].Date = DateOf(date)
    \/ load_daily_consolidated(date, P.daily).exists

\* the loop over the trading days, in order
RECURSIVE ProcessDates(_, _)
ProcessDates(P, dates) ==
    IF dates = <<>> THEN P
    ELSE ProcessDates(ProcessDate(P, Head(dates)), Tail(dates))

initialize_historical_data(P, days_back, today, hol, up) ==
    LET end_date     == today
        start_date   == AddDays(end_date, -days_back)
        fetched      == FetchAll(P.stocks, start_date, end_date, today, up)
        trading_days == get_trading_days_in_range(start_date, end_date, hol)
        Process(P1)  ==
            ProcessDates(P1, SelectSeq(trading_days, LAMBDA date : HasData(P1, date)))
    IN  Process([P EXCEPT !.stocks = fetched.stocks])

\* target is <<>> (None) or <<datetime>>; the result is the files and the outcome
fetch_daily_data(P, target, today, hol, up) ==
    LET Gate(target_date, fetched, P1) ==
            IF fetched.success < MIN_VALID_STOCKS
            THEN [P |-> P1, outcome |-> "insufficient data"]
            ELSE [P |-> ProcessDate(P1, target_date), outcome |-> "done"]
        Fetched(target_date, fetched) ==
            Gate(target_date, fetched, [P EXCEPT !.stocks = fetched.stocks])
        Run(target_date) ==
            IF ~is_trading_day(target_date, hol)
            THEN [P |-> P, outcome |-> "not a trading day"]
            ELSE Fetched(target_date,
                         FetchAll(P.stocks, AddDays(target_date, -1),
                                  AddDays(target_date, 1), today, up))
    IN  Run(IF target = <<>> THEN get_previous_trading_day(today, hol) ELSE target[1])

\* the while loop of update_incremental from date on: the files, the days
\* fetch_daily_data was invoked for, and whether the loop raised
RECURSIVE UpdateLoop(_, _, _, _, _, _, _)
UpdateLoop(P, date, target_date, invoked, today, hol, up) ==
    IF ~Comparable(date, target_date)
    THEN [P |-> P, invoked |-> invoked, outcome |-> "TypeError"]
    ELSE IF ~DtLe(date, target_date)
    THEN [P |-> P, invoked |-> invoked, outcome |-> "complete"]
    ELSE IF is_trading_day(date, hol)
    THEN UpdateLoop(fetch_daily_data(P, <<date>>, today, hol, up).P, AddDays(date, 1),
                    target_date, Append(invoked, DateOf(date)), today, hol, up)
    ELSE UpdateLoop(P, AddDays(date, 1), target_date, invoked, today, hol, up)

update_incremental(P, today, hol, up) ==
    LET current_date == today
        Missing(latest_date, target_date) ==
            IF DateOf(latest_date) >= DateOf(target_date)
            THEN [P |-> P, invoked |-> <<>>, outcome |-> "up to date",
                  L |-> DateOf(latest_date), T |-> DateOf(target_date)]
            ELSE UpdateLoop(P, AddDays(latest_date, 1), target_date, <<>>, today, hol, up)
                     @@ [L |-> DateOf(latest_date), T |-> DateOf(target_date)]
        Update(latest_date) ==
            IF latest_date = <<>>
            THEN [P |-> initialize_historical_data(P, HISTORICAL_DAYS, today, hol, up),
                  invoked |-> <<>>, outcome |-> "initialized", L |-> 0, T |-> 0]
            ELSE Missing(latest_date[1], get_previous_trading_day(current_date, hol))
    IN  Update(get_latest_breadth_date(P.ledger))

----------------------------------------------------------------------------
(* The pipeline as a state machine: one command at a time                  *)

StartDay == 5

MaxDay == 8

HolidayDays == {3}

\* explicit target dates reach back this many days from today
Lookback == 2

RecentDays == {d \in 1..MaxDay : now.day - Lookback <= d /\ d <= now.day}

\* which cohorts' fetches return rows during one command
FeedOutcomes == {{1, 2, 3}, {1, 2}, {1}}

Files == [stocks |-> stocks, daily |-> daily, ledger |-> ledger, basis |-> basis]

SetFiles(P) ==
    /\ stocks' = P.stocks
    /\ daily' = P.daily
    /\ ledger' = P.ledger
    /\ basis' = P.basis

\* the number of commands one behaviour runs
MaxCmds == 3

\* the record of a command: its ordinal number, what it was and how it ended
Outcome(op, date, result, invoked, L, T, wrote) ==
    [seq |-> lastCmd.seq + 1, op |-> op, date |-> date, result |-> result,
     invoked |-> invoked, L |-> L, T |-> T, wrote |-> wrote,
     again |-> lastCmd.op = op /\ lastCmd.date = date /\ lastCmd.wrote]

MayRun == lastCmd.seq < MaxCmds

PipelineIdle ==
    /\ now = DT(StartDay, 1080, "IST")
    /\ holidays = HolidayDays
    /\ stocks = Materialize([c \in Cohorts |-> NoFile])
    /\ daily = [d \in 1..MaxDay |-> NoFile]
    /\ ledger = NoFile
    /\ basis = [d \in 1..MaxDay |-> 0]
    /\ lastCmd = [seq |-> 0, op |-> "none", date |-> 0, result |-> "", invoked |-> <<>>,
                  L |-> 0, T |-> 0, wrote |-> FALSE, again |-> FALSE]

HarnessIdle ==
    /\ wFile = NoFile
    /\ wRef = DT(0, 0, "IST")
    /\ wRows = <<>>
    /\ wGrown = 0

Writers == 1..2

FunctionsIdle ==
    /\ bOut = [done |-> FALSE, metrics |-> <<>>]
    /\ kOut = <<>>

WritersIdle ==
    /\ pc = [w \in Writers |-> "off"]
    /\ mem = [w \in Writers |-> <<>>]
    /\ job = [w \in Writers |-> 0]
    /\ seen = NoFile
    /\ committed = {}

Init == PipelineIdle /\ HarnessIdle /\ WritersIdle /\ FunctionsIdle

\* python -m src.main init
CmdInit ==
    \E up \in FeedOutcomes :
        /\ MayRun
        /\ SetFiles(initialize_historical_data(Files, HISTORICAL_DAYS, now, holidays, up))
        /\ lastCmd' = Outcome("init", 0, "complete", <<>>, 0, 0, ledger' # ledger)
        /\ UNCHANGED <<now, holidays>>

\* python -m src.main daily
CmdDaily ==
    \E up \in FeedOutcomes :
        \E res \in {fetch_daily_data(Files, <<>>, now, holidays, up)} :
            /\ MayRun
            /\ SetFiles(res.P)
            /\ lastCmd' = Outcome("daily", DateOf(get_previous_trading_day(now, holidays)),
                                  res.outcome, <<>>, 0, 0, ledger' # ledger)
            /\ UNCHANGED <<now, holidays>>

\* fetch_daily_data(target_date) for an explicit past or present date
CmdDailyFor ==
    \E up \in FeedOutcomes, d \in RecentDays :
        /\ MayRun
        /\ \E res \in {fetch_daily_data(Files, <<DT(d, 0, "naive")>>, now, holidays, up)} :
               /\ SetFiles(res.P)
               /\ lastCmd' = Outcome("daily", d, res.outcome, <<>>, 0, 0, ledger' # ledger)
        /\ UNCHANGED <<now, holidays>>

\* python -m src.main update
CmdUpdate ==
    \E up \in FeedOutcomes :
        \E res \in {update_incremental(Files, now, holidays, up)} :
            /\ MayRun
            /\ SetFiles(res.P)
            /\ lastCmd' = Outcome("update", 0, res.outcome, res.invoked, res.L, res.T,
                                  ledger' # ledger)
            /\ UNCHANGED <<now, holidays>>

\* create_daily_consolidated_file(date, symbols) on its own
Consolidate ==
    \E d \in RecentDays :
        /\ MayRun
        /\ daily' = create_daily_consolidated_file(DT(d, 0, "naive"), symbols, stocks, daily)
        /\ lastCmd' = Outcome("consolidate", d,
                              IF daily'[d] = daily[d] THEN "same" ELSE "created",
                              <<>>, 0, 0, FALSE)
        /\ UNCHANGED <<now, holidays, stocks, ledger, basis>>

\* append_breadth_metrics(date) on its own
Upsert ==
    \E d \in RecentDays :
        \E res \in {append_breadth_metrics(DT(d, 0, "naive"), daily, ledger, basis)} :
            /\ MayRun
            /\ ledger' = res.ledger
            /\ basis' = res.basis
            /\ lastCmd' = Outcome("upsert", d, IF res.wrote THEN "saved" ELSE "no data",
                                  <<>>, 0, 0, res.wrote)
            /\ UNCHANGED <<now, holidays, stocks, daily>>

\* a day passes
Tick ==
    /\ now.day < MaxDay
    /\ now' = AddDays(now, 1)
    /\ UNCHANGED <<holidays, stocks, daily, ledger, basis, lastCmd>>

Next ==
    \/ (CmdInit /\ UNCHANGED <<cvars, wvars, hvars>>)
    \/ (CmdDaily /\ UNCHANGED <<cvars, wvars, hvars>>)
    \/ (CmdDailyFor /\ UNCHANGED <<cvars, wvars, hvars>>)
    \/ (CmdUpdate /\ UNCHANGED <<cvars, wvars, hvars>>)
    \/ (Consolidate /\ UNCHANGED <<cvars, wvars, hvars>>)
    \/ (Upsert /\ UNCHANGED <<cvars, wvars, hvars>>)
    \/ (Tick /\ UNCHANGED <<cvars, wvars, hvars>>)

Spec == Init /\ [][Next]_vars

----------------------------------------------------------------------------
(* Concurrent upserts: two runs of append_breadth_metrics for different    *)
(* dates and a reader, interleaved at the file operations.  save_breadth_  *)
(* data is df.to_csv(filepath): the file is opened for writing, which      *)
(* truncates it, and the rows reach it when the buffer is flushed at close.*)

\* stock files and snapshots prepared for days 2, 4 and 5
ConcToday == DT(StartDay, 1080, "IST")

ConcStocks ==
    FetchAll(Materialize([c \in Cohorts |-> NoFile]), DT(1, 0, "IST"),
             AddDays(ConcToday, 1), ConcToday, Cohorts).stocks

RECURSIVE ConcSnapshots(_, _, _)
ConcSnapshots(stockDir, dailyDir, days) ==
    IF days = <<>> THEN dailyDir
    ELSE ConcSnapshots(stockDir,
                       create_daily_consolidated_file(DT(Head(days), 0, "naive"), symbols,
                                                      stockDir, dailyDir),
                       Tail(days))

ConcInit ==
    /\ now = ConcToday
    /\ holidays = HolidayDays
    /\ stocks = ConcStocks
    /\ daily = ConcSnapshots(stocks, [d \in 1..MaxDay |-> NoFile], <<2, 4, 5>>)
    /\ basis = [d \in 1..MaxDay |-> 0]
    /\ ledger \in {NoFile,
                   append_breadth_metrics(DT(2, 0, "naive"), daily, NoFile, basis).ledger}
    /\ lastCmd = [seq |-> 0, op |-> "none", date |-> 0, result |-> "", invoked |-> <<>>,
                  L |-> 0, T |-> 0, wrote |-> FALSE, again |-> FALSE]
    /\ pc = [w \in Writers |-> "start"]
    /\ mem = [w \in Writers |-> <<>>]
    /\ job \in {<<4, 5>>, <<5, 4>>}
    /\ seen = ledger
    /\ committed = {ledger}
    /\ HarnessIdle
    /\ FunctionsIdle

\* lines 193-227 of append_breadth_metrics: read the snapshot and the ledger
\* file, merge in memory.  Reading a file that another writer has truncated
\* raises (EmptyDataError).
WMerge(w) ==
    /\ pc[w] = "start"
    /\ IF ledger.exists /\ ledger.rows = <<>>
       THEN /\ pc' = [pc EXCEPT ![w] = "failed"]
            /\ UNCHANGED <<mem, committed>>
       ELSE \E res \in {append_breadth_metrics(DT(job[w], 0, "naive"), daily, ledger, basis)} :
                /\ mem' = [mem EXCEPT ![w] = res.ledger.rows]
                /\ committed' = committed \cup {res.ledger}
                /\ pc' = [pc EXCEPT ![w] = "merged"]
    /\ UNCHANGED <<pvars, job, seen, wvars, hvars>>

\* df.to_csv opens the ledger file for writing: it is now empty
WOpen(w) ==
    /\ pc[w] = "merged"
    /\ ledger' = File(<<>>)
    /\ pc' = [pc EXCEPT ![w] = "writing"]
    /\ UNCHANGED <<now, holidays, stocks, daily, basis, lastCmd, mem, job, seen, committed, wvars, hvars>>

\* the rows are flushed from offset 0 and the file is closed; rows another
\* writer put beyond them stay
WClose(w) ==
    /\ pc[w] = "writing"
    /\ ledger' = File(mem[w] \o SubSeq(ledger.rows, Len(mem[w]) + 1, Len(ledger.rows)))
    /\ pc' = [pc EXCEPT ![w] = "done"]
    /\ UNCHANGED <<now, holidays, stocks, daily, basis, lastCmd, mem, job, seen, committed, wvars, hvars>>

\* a concurrent reader opens and reads the ledger file
Read ==
    /\ seen' = ledger
    /\ UNCHANGED <<pvars, pc, mem, job, committed, wvars, hvars>>

ConcNext == (\E w \in Writers : WMerge(w) \/ WOpen(w) \/ WClose(w)) \/ Read

SpecConc == ConcInit /\ [][ConcNext]_vars

\* C6: no lost update - when two upserts for different dates have both
\* completed, the ledger holds the records of both dates.
C6_NoLostUpdate ==
    (\A w \in Writers : pc[w] = "done") => (\A w \in Writers : job[w] \in LedgerDays(ledger))

\* C7: atomic persistence - a reader finds the complete ledger as it was
\* before an upsert or the complete merged ledger after it.
C7_AtomicPersistence == seen \in committed

----------------------------------------------------------------------------
(* Claims about the pipeline and the ledger                                *)

\* C2: coverage gate in the consolidator - a snapshot is persisted for a date
\* only when it has at least MIN_VALID_STOCKS rows.
C2_CoverageGate ==
    \A d \in DOMAIN daily : daily[d].exists => FrameLen(daily[d].rows) >= MIN_VALID_STOCKS

\* C3: every record in the ledger was computed from a snapshot with at least
\* MIN_VALID_STOCKS rows.
C3_LedgerCoverage ==
    \A d \in LedgerDays(ledger) : basis[d] >= MIN_VALID_STOCKS

\* C4: ledger upsert is idempotent - a second append_breadth_metrics for the
\* same date over the same snapshot leaves the ledger file as it is, and the
\* one record stored for the date is the computed record.
C4_UpsertIdempotent ==
    [][(/\ lastCmd.op = "upsert" /\ lastCmd.wrote
        /\ lastCmd'.op = "upsert" /\ lastCmd'.seq = lastCmd.seq + 1
        /\ lastCmd'.date = lastCmd.date)
       => /\ ledger' = ledger
          /\ LET d == lastCmd.date
                 m == calculate_breadth_metrics(daily[d].rows, DT(d, 0, "naive"))
             IN  /\ Cardinality({i \in 1..Len(ledger'.rows) : ledger'.rows[i].Date = Str(d)}) = 1
                 /\ \E i \in 1..Len(ledger'.rows) : ledger'.rows[i] = m[1]]_vars

C4_Witness ==
    /\ lastCmd.op = "upsert" /\ lastCmd.again /\ lastCmd.wrote
    /\ Len(ledger.rows) >= 2
    /\ lastCmd.date < SetMax(LedgerDays(ledger))

\* C5: the persisted ledger has strictly increasing dates.
C5_LedgerStrictlyIncreasing ==
    \A i \in 1..(Len(ledger.rows) - 1) :
        ledger.rows[i].Date.str < ledger.rows[i + 1].Date.str

C5_Witness ==
    /\ lastCmd.wrote /\ lastCmd.op \in {"daily", "upsert"}
    /\ Len(ledger.rows) >= 2
    /\ lastCmd.date < SetMax(LedgerDays(ledger))

\* C8: a date that is in the ledger stays in the ledger.
C8_DatesMonotone ==
    [][\A d \in LedgerDays(ledger) : d \in LedgerDays(ledger')]_vars

C8_Witness ==
    /\ lastCmd.wrote /\ lastCmd.seq >= 2
    /\ Len(ledger.rows) >= 2
    /\ lastCmd.op \in {"daily", "upsert"}
    /\ lastCmd.date \in LedgerDays(ledger)

\* the trading days d with L < d <= T, ascending
TradingDaysBetween(L, T) ==
    SelectSeq(Materialize([i \in 1..(T - L) |-> L + i]),
              LAMBDA d : is_trading_day(DT(d, 0, "IST"), holidays))

\* C9: resume - with a non-empty ledger whose latest date L is before the
\* previous trading day T, update_incremental completes without error having
\* invoked the per-date pipeline for exactly the trading days in (L, T], ascending.
C9_ResumeAfterInterruption ==
    (lastCmd.op = "update" /\ lastCmd.L > 0 /\ lastCmd.L < lastCmd.T)
        => /\ lastCmd.result = "complete"
           /\ lastCmd.invoked = TradingDaysBetween(lastCmd.L, lastCmd.T)

----------------------------------------------------------------------------
(* SeriesWindow harness: one symbol's series, consolidated for a fixed     *)
(* reference date before and after later-dated bars are appended.          *)

MaxGrow == 1

Seeds == {1, 2}

\* lengths of the generated series, on both sides of every SMA period
ShortLens == {1, 2, 9, 10, 11, 21}

SeriesShapes ==
    (ShortLens \X Seeds \X {"asc", "desc"})
        \cup {<<50, 1, "asc">>, <<51, 2, "desc">>, <<200, 2, "asc">>, <<201, 1, "desc">>}

\* the i-th trading date of a generated series: five days, then a two-day gap
BarDate(i) == i + 2 * ((i - 1) \div 5)

GenBar(i, seed) ==
    LET c == 20 + ((3 * i * i + 5 * i * seed + seed) % 13)
        l == c - ((i * seed) % 3)
    IN  [Date |-> BarDate(i), Open |-> l + (i % 2), High |-> c + ((i + seed) % 4),
         Low |-> l, Close |-> c, Volume |-> 1000 + i]

GenSeries(n, seed, order) ==
    Materialize([i \in 1..n |->
                    IF order = "asc" THEN GenBar(i, seed) ELSE GenBar(n + 1 - i, seed)])

\* a batch of two bars dated after every stored bar and after the reference date
FutureBatch(file, ref) ==
    LET last == SetMax({DateOf(ref)} \cup {file.rows[i].Date : i \in 1..Len(file.rows)})
    IN  <<[Date |-> last + 1, Open |-> 90, High |-> 101, Low |-> 1, Close |-> 96, Volume |-> 5],
          [Date |-> last + 2, Open |-> 90, High |-> 102, Low |-> 2, Close |-> 97, Volume |-> 6]>>

WinInit ==
    \E shape \in SeriesShapes :
        LET n == shape[1] IN
        /\ wFile = File(GenSeries(n, shape[2], shape[3]))
        /\ \E day \in {BarDate(n), BarDate((n + 1) \div 2), BarDate(n) + 1} :
               wRef = DT(day, 1080, "IST")
        /\ wRows = <<>>
        /\ wGrown = 0
        /\ PipelineIdle
        /\ WritersIdle
        /\ FunctionsIdle

\* consolidate_date(wRef, [symbol]) for the one symbol of the harness, once
\* for each content of the stock file
WConsolidate ==
    /\ IF wRows = <<>> THEN TRUE ELSE wRows[Len(wRows)].grown < wGrown
    /\ wRows' = Append(wRows, [grown |-> wGrown,
                               rows  |-> ConsolidateSymbol("SYM", load_stock_data(wFile), wRef)])
    /\ UNCHANGED <<wFile, wRef, wGrown>>
    /\ UNCHANGED <<pvars, cvars, hvars>>

\* a later fetch stores bars dated after the reference date
WAppendFuture ==
    /\ wGrown < MaxGrow
    /\ wFile' = append_stock_data(wFile, FutureBatch(wFile, wRef))
    /\ wGrown' = wGrown + 1
    /\ UNCHANGED <<wRef, wRows>>
    /\ UNCHANGED <<pvars, cvars, hvars>>

WinNext == WConsolidate \/ WAppendFuture

SpecWin == WinInit /\ [][WinNext]_vars

----------------------------------------------------------------------------
(* Claims about the windows                                                *)

\* the window columns of an emitted result: none when the symbol was skipped
WindowsOf(rows) ==
    [i \in 1..Len(rows) |-> <<rows[i].High_52W, rows[i].Low_52W, rows[i].SMA>>]

\* C1: point-in-time - the High_52W, Low_52W and SMA values emitted for the
\* reference date are the same before and after bars dated after it are stored.
C1_PointInTime ==
    \A i, j \in 1..Len(wRows) : WindowsOf(wRows[i].rows) = WindowsOf(wRows[j].rows)

C1_Witness ==
    \E i, j \in 1..Len(wRows) :
        /\ wRows[i].grown < wRows[j].grown
        /\ wRows[i].rows # <<>>
        /\ wRows[j].rows # <<>>

\* the bars of the stored series dated at or before the reference date
BarsUpTo(file, ref) == {b \in Range(file.rows) : b.Date <= DateOf(ref)}

\* the p latest-dated bars of a set of bars (all of them when there are fewer)
LatestBars(B, p) == {b \in B : Cardinality({c \in B : c.Date > b.Date}) < p}

\* the sum of the closes of a non-empty set of bars with distinct dates
CloseSum(B) ==
    LET lo == SetMin({b.Date : b \in B})
        hi == SetMax({b.Date : b \in B})
        closeOn == [d \in lo..hi |->
                       IF \E b \in B : b.Date = d
                       THEN (CHOOSE b \in B : b.Date = d).Close ELSE 0]
    IN  SumTo(closeOn, lo, hi)

\* C10: partial-window SMA - with k >= 1 bars at or before the reference date,
\* SMA_p is defined and equals the mean of the last min(k, p) closes.
C10_PartialWindowSMA ==
    \A e \in 1..Len(wRows) : \A r \in 1..Len(wRows[e].rows) :
        LET B == BarsUpTo(wFile, wRef)
            k == Cardinality(B)
        IN  \A q \in 1..Len(SMA_PERIODS) :
                LET p   == SMA_PERIODS[q]
                    W   == LatestBars(B, p)
                    sma == wRows[e].rows[r].SMA[q]
                IN  /\ k >= 1
                    /\ sma.den # 0
                    /\ Cardinality(W) = Min2(k, p)
                    /\ sma.num * Cardinality(W) = CloseSum(W) * sma.den

C10_Witness ==
    /\ Len(wRows) >= 1
    /\ wRows[1].rows # <<>>
    /\ Cardinality(BarsUpTo(wFile, wRef)) > SMA_PERIODS[1]
    /\ Cardinality(BarsUpTo(wFile, wRef)) < SMA_PERIODS[2]

----------------------------------------------------------------------------
(* Trailing-year harness: calculate_52week_high_low applied to one stored  *)
(* series, before and after a bar older than the trailing window changes.  *)

\* lengths of the generated series, on both sides of the trailing window
YearLens == {1, 2, 3, 252, 253, 254, 255}

YearShapes == YearLens \X Seeds \X {"asc", "desc"}

\* positions of the stored bars at or before the reference date that have
\* at least TRAILING_WINDOW later bars at or before it
OlderBars(file, ref) ==
    {i \in 1..Len(file.rows) :
        /\ file.rows[i].Date <= DateOf(ref)
        /\ Cardinality({j \in 1..Len(file.rows) :
                           /\ file.rows[j].Date <= DateOf(ref)
                           /\ file.rows[j].Date > file.rows[i].Date}) >= TRAILING_WINDOW}

\* the stored series with bar i rewritten (a new high, a new low) or deleted
ChangeBar(rows, i, how) ==
    IF how = "drop"
    THEN SubSeq(rows, 1, i - 1) \o SubSeq(rows, i + 1, Len(rows))
    ELSE [rows EXCEPT ![i] = IF how = "spike" THEN [@ EXCEPT !.High = 1000]
                             ELSE [@ EXCEPT !.Low = 0]]

YearInit ==
    \E shape \in YearShapes :
        /\ wFile = File(GenSeries(shape[1], shape[2], shape[3]))
        /\ \E day \in {BarDate(shape[1]), BarDate(shape[1]) - 1, BarDate(shape[1]) + 1, 0} :
               wRef = DT(day, 1080, "IST")
        /\ wRows = <<>>
        /\ wGrown = 0
        /\ PipelineIdle
        /\ WritersIdle
        /\ FunctionsIdle

\* calculate_52week_high_low(df, wRef) on the stored series, once for each
\* content of the stock file
YExtremes ==
    /\ IF wRows = <<>> THEN TRUE ELSE wRows[Len(wRows)].grown < wGrown
    /\ wRows' = Append(wRows, [grown |-> wGrown,
                               hl    |-> calculate_52week_high_low(wFile.rows, wRef)])
    /\ UNCHANGED <<wFile, wRef, wGrown>>
    /\ UNCHANGED <<pvars, cvars, hvars>>

\* the stock file is rewritten with one older bar changed
YChangeOlder ==
    /\ wGrown < MaxGrow
    /\ \E i \in OlderBars(wFile, wRef), how \in {"spike", "dip", "drop"} :
           wFile' = File(ChangeBar(wFile.rows, i, how))
    /\ wGrown' = wGrown + 1
    /\ UNCHANGED <<wRef, wRows>>
    /\ UNCHANGED <<pvars, cvars, hvars>>

YearNext == YExtremes \/ YChangeOlder

SpecYear == YearInit /\ [][YearNext]_vars

\* the extremes over the TRAILING_WINDOW latest bars at or before the
\* reference date, "not available" when there is no such bar
TrailingExtremes(file, ref) ==
    LET W == LatestBars(BarsUpTo(file, ref), TRAILING_WINDOW)
    IN  IF W = {} THEN <<NaN, NaN>>
        ELSE <<Num(SetMax({b.High : b \in W})), Num(SetMin({b.Low : b \in W}))>>

\* C11: trailing-window 52-week extremes - High_52W and Low_52W are the
\* maximum High and minimum Low over the last min(252, count) bars at or
\* before the reference date, do not change when an older bar changes, and
\* are both not available when there is no such bar.
C11_TrailingWindow ==
    /\ Cardinality(LatestBars(BarsUpTo(wFile, wRef), TRAILING_WINDOW))
           = Min2(TRAILING_WINDOW, Cardinality(BarsUpTo(wFile, wRef)))
    /\ \A e \in 1..Len(wRows) : wRows[e].hl = TrailingExtremes(wFile, wRef)
    /\ \A e, f \in 1..Len(wRows) : wRows[e].hl = wRows[f].hl

C11_Witness ==
    /\ Len(wRows) = 2
    /\ wRows[1].grown < wRows[2].grown
    /\ wRows[2].hl[1].den # 0
    /\ Cardinality(BarsUpTo(wFile, wRef)) >= TRAILING_WINDOW

C11_WitnessNone ==
    /\ Len(wRows) = 1
    /\ BarsUpTo(wFile, wRef) = {}
    /\ wRows[1].hl = <<NaN, NaN>>

----------------------------------------------------------------------------
(* BreadthEngine harness: calculate_breadth_metrics and                    *)
(* append_breadth_metrics on the snapshot stored for one date.             *)

\* the date of the snapshot under test
SnapDate == DT(2, 0, "naive")

Half(v) == [num |-> 2 * v + 1, den |-> 2]

\* the kinds of snapshot rows: movers on either side of the threshold and
\* exactly on it, rows with and without a Prev_Close cell, rows without a
\* base, rows on, above and below their SMAs and extremes
RowKinds ==
    [up       |-> [Open |-> 100, Close |-> 105, High_52W |-> Num(105), Low_52W |-> Num(90),
                   SMA |-> <<Num(100), Num(101), Half(104), Num(104)>>],
     down     |-> [Open |-> 100, Close |-> 95, High_52W |-> Num(120), Low_52W |-> Num(95),
                   SMA |-> <<Num(100), Half(95), Num(96), Num(200)>>],
     edge     |-> [Open |-> 200, Close |-> 209, High_52W |-> NaN, Low_52W |-> NaN,
                   SMA |-> <<Num(209), NaN, [num |-> 418, den |-> 2], Num(300)>>],
     nobase   |-> [Open |-> 0, Close |-> 50, High_52W |-> Num(60), Low_52W |-> Num(40),
                   SMA |-> <<Num(50), Num(50), Num(49), Num(51)>>],
     prev     |-> [Open |-> 104, Close |-> 105, Prev_Close |-> Num(100),
                   High_52W |-> Num(110), Low_52W |-> Num(90),
                   SMA |-> <<Num(100), Num(100), Num(100), Num(100)>>],
     prevzero |-> [Open |-> 100, Close |-> 95, Prev_Close |-> Num(0),
                   High_52W |-> Num(110), Low_52W |-> Num(90),
                   SMA |-> <<Num(100), Num(100), Num(100), Num(100)>>],
     prevnan  |-> [Open |-> 100, Close |-> 105, Prev_Close |-> NaN,
                   High_52W |-> Num(105), Low_52W |-> Num(105),
                   SMA |-> <<NaN, NaN, NaN, NaN>>],
     prevnone |-> [Open |-> 0, Close |-> 105, Prev_Close |-> Num(0),
                   High_52W |-> Num(110), Low_52W |-> Num(90),
                   SMA |-> <<Num(105), Num(106), Num(104), Num(105)>>],
     prevedge |-> [Open |-> 100, Close |-> 191, Prev_Close |-> Num(200),
                   High_52W |-> Num(250), Low_52W |-> Num(150),
                   SMA |-> <<Num(191), Num(192), Num(190), Num(191)>>]]

Kinds == DOMAIN RowKinds

\* how many symbols share a row
Weights == {1, 7, 31}

SnapRow(kind, w) ==
    RowKinds[kind] @@ [Symbol |-> kind, High |-> 0, Low |-> 0, Volume |-> 1000, n |-> w]

\* the snapshot files of the harness: missing, without rows, one or two rows
SnapFiles ==
    {NoFile, File(<<>>)}
        \cup {File(<<SnapRow(k, w)>>) : k \in Kinds, w \in Weights}
        \cup {File(<<SnapRow(k[1], w[1]), SnapRow(k[2], w[2])>>) :
                  k \in Kinds \X Kinds, w \in Weights \X Weights}

\* the snapshot of day 1, from which the ledger's first record was computed
FirstSnap == File(<<SnapRow("up", 7), SnapRow("down", 1)>>)

\* the snapshot of day 3
ThirdSnap == File(<<SnapRow("prev", 31), SnapRow("edge", 7), SnapRow("nobase", 1)>>)

\* the ledgers the upsert may find: none, or the ledger after the upserts of
\* day 1, of days 1 and 3, and of days 1, 2 and 3 with day 2 upserted while
\* its snapshot was that of day 1
RECURSIVE UpsertAll(_, _, _)
UpsertAll(dailyDir, days, led) ==
    IF days = <<>> THEN led
    ELSE UpsertAll(dailyDir, Tail(days),
                   append_breadth_metrics(DT(Head(days), 0, "naive"), dailyDir,
                                          led.ledger, led.basis))

EarlierLedgers(dailyDir) ==
    LET none == [ledger |-> NoFile, basis |-> [d \in 1..MaxDay |-> 0]]
        old  == [dailyDir EXCEPT ![DateOf(SnapDate)] = FirstSnap]
        Strip(led) == [ledger |-> led.ledger, basis |-> led.basis]
    IN  {none, Strip(UpsertAll(old, <<1>>, none)), Strip(UpsertAll(old, <<3, 1>>, none)),
         Strip(UpsertAll(old, <<3, 1, 2>>, none))}

BreadthInit ==
    /\ now = DT(StartDay, 1080, "IST")
    /\ holidays = HolidayDays
    /\ stocks = Materialize([c \in Cohorts |-> NoFile])
    /\ \E snap \in SnapFiles :
           daily = [d \in 1..MaxDay |->
                       IF d = 1 THEN FirstSnap ELSE IF d = DateOf(SnapDate) THEN snap
                       ELSE IF d = 3 THEN ThirdSnap ELSE NoFile]
    /\ \E led \in EarlierLedgers(daily) : ledger = led.ledger /\ basis = led.basis
    /\ lastCmd = [seq |-> 0, op |-> "none", date |-> 0, result |-> "", invoked |-> <<>>,
                  L |-> 0, T |-> 0, wrote |-> FALSE, again |-> FALSE]
    /\ HarnessIdle
    /\ WritersIdle
    /\ FunctionsIdle

\* calculate_breadth_metrics(df, date) on the loaded snapshot
BCalculate ==
    /\ ~bOut.done
    /\ load_daily_consolidated(SnapDate, daily).exists
    /\ bOut' = [done    |-> TRUE,
                metrics |-> calculate_breadth_metrics(
                                load_daily_consolidated(SnapDate, daily).rows, SnapDate)]
    /\ UNCHANGED <<pvars, cvars, wvars, kOut>>

\* append_breadth_metrics(date); kOut keeps the header written by to_csv
BUpsert ==
    /\ lastCmd.seq = 0
    /\ \E res \in {append_breadth_metrics(SnapDate, daily, ledger, basis)} :
           /\ ledger' = res.ledger
           /\ basis' = res.basis
           /\ lastCmd' = Outcome("upsert", DateOf(SnapDate),
                                 IF res.wrote THEN "saved" ELSE "no data",
                                 <<>>, 0, 0, res.wrote)
           /\ kOut' = <<[op |-> "to_csv", columns |-> res.columns]>>
    /\ UNCHANGED <<now, holidays, stocks, daily, cvars, wvars, bOut>>

BreadthNext == BCalculate \/ BUpsert

SpecBreadth == BreadthInit /\ [][BreadthNext]_vars

----------------------------------------------------------------------------
(* Properties of calculate_breadth_metrics, stated on the snapshot file    *)
(* and on the result in bOut.                                              *)

\* the rows of the snapshot under test
Snap == daily[DateOf(SnapDate)].rows

Calculated == bOut.done /\ bOut.metrics # <<>>

\* the number of symbols in the rows at the positions S
Total(df, S) == SumTo([i \in 1..Len(df) |-> IF i \in S THEN df[i].n ELSE 0], 1, Len(df))

\* the base a row's change is measured from; 0 when it has none
BaseOf(r) ==
    IF "Prev_Close" \in DOMAIN r /\ r.Prev_Close # NaN /\ r.Prev_Close # Num(0)
    THEN r.Prev_Close.num
    ELSE r.Open

\* the rows whose change% is above +4.5 (dir = 1) or below -4.5 (dir = -1);
\* the bases of the snapshots are never negative
Movers(df, dir) ==
    {i \in 1..Len(df) :
        /\ BaseOf(df[i]) > 0
        /\ dir * 1000 * (df[i].Close - BaseOf(df[i])) > DAILY_CHANGE_THRESHOLD_X10 * BaseOf(df[i])}

\* v, in hundredths, is c / n rounded to 2 decimals
NearestHundredth(v, c, n) ==
    /\ 2 * (100 * c - v * n) <= n
    /\ 2 * (v * n - 100 * c) <= n

\* C12: for a non-empty snapshot with u rows above +4.5% and d rows below
\* -4.5%, 4.5r is u/d rounded to 2 decimals when d > 0, 0.0 when d = 0 and
\* u = 0, and the sentinel 99.99 when d = 0 and u > 0; no quotient is taken
\* with a zero divisor.
C12_RatioEdgeCases ==
    Calculated =>
        LET Holds(u, d, r45) ==
                /\ d > 0 => NearestHundredth(r45, u, d)
                /\ (d = 0 /\ u = 0) => r45 = 0
                /\ (d = 0 /\ u > 0) => r45 = 9999
                /\ r45 # ZeroDivision
        IN  Holds(Total(Snap, Movers(Snap, 1)), Total(Snap, Movers(Snap, -1)),
                  bOut.metrics[1].R45)

C12_Witness ==
    /\ Calculated
    /\ Total(Snap, Movers(Snap, 1)) = 7
    /\ Total(Snap, Movers(Snap, -1)) = 31
    /\ bOut.metrics[1].R45 = 23

C12_WitnessSentinel ==
    /\ Calculated
    /\ Total(Snap, Movers(Snap, 1)) > 0
    /\ Total(Snap, Movers(Snap, -1)) = 0
    /\ bOut.metrics[1].R45 = 9999

C12_WitnessNoMovers ==
    /\ Calculated
    /\ Total(Snap, Movers(Snap, 1)) = 0
    /\ Total(Snap, Movers(Snap, -1)) = 0
    /\ bOut.metrics[1].R45 = 0

\* C13: calculate_breadth_metrics on a snapshot with zero rows returns the
\* empty result and takes no quotient, and append_breadth_metrics for a date
\* whose snapshot is missing or has zero rows leaves the ledger unchanged.
C13_EmptySnapshotGuard ==
    /\ [](bOut.done /\ Snap = <<>> => bOut.metrics = <<>>)
    /\ [][(lastCmd'.seq # lastCmd.seq /\ Snap = <<>>)
              => (ledger' = ledger /\ ~lastCmd'.wrote)]_vars

C13_Witness ==
    /\ bOut.done
    /\ daily[DateOf(SnapDate)] = File(<<>>)
    /\ bOut.metrics = <<>>
    /\ lastCmd.op = "upsert"
    /\ ledger.exists

C13_WitnessMissing ==
    /\ ~daily[DateOf(SnapDate)].exists
    /\ lastCmd.op = "upsert"
    /\ ledger.exists
    /\ ~lastCmd.wrote

\* C14: per row the base of the daily change is the previous close when the
\* row has one that is present and non-zero, otherwise the open, and
\* change% = 100*(close-base)/base; a row whose base and fallback open are
\* both zero or absent is in neither the 4.5+ nor the 4.5- count but still
\* counts in the denominator n.
C14_DailyChangeBasis ==
    Calculated =>
        LET n == Total(Snap, 1..Len(Snap))
            Holds(u, d, m) ==
                /\ m.Up45 = Pct(u, n)
                /\ m.Down45 = Pct(d, n)
                /\ NearestHundredth(m.Up45, 100 * u, n)
                /\ NearestHundredth(m.Down45, 100 * d, n)
                /\ u + d + Total(Snap, {i \in 1..Len(Snap) : BaseOf(Snap[i]) = 0}) <= n
        IN  Holds(Total(Snap, Movers(Snap, 1)), Total(Snap, Movers(Snap, -1)),
                  bOut.metrics[1])

\* a row with a previous close that moves by more than 4.5% from it (but not
\* from its open) beside a row without any base
C14_Witness ==
    /\ Calculated
    /\ Len(Snap) = 2
    /\ Snap[1].Symbol = "prev"
    /\ Snap[2].Symbol = "prevnone"
    /\ Snap[1].n = 7
    /\ Snap[2].n = 1
    /\ bOut.metrics[1].Up45 = 8750
    /\ bOut.metrics[1].Down45 = 0

\* a zero previous close falls back to the open
C14_WitnessFallback ==
    /\ Calculated
    /\ Len(Snap) = 1
    /\ Snap[1].Symbol = "prevzero"
    /\ bOut.metrics[1].Down45 = 10000

\* the rows whose close is strictly above (dir = 1) or below (dir = -1) their
\* SMA of the k-th period; a row whose SMA is unavailable is in neither set
SmaSide(df, k, dir) ==
    {i \in 1..Len(df) :
        /\ df[i].SMA[k] # NaN
        /\ dir * df[i].Close * df[i].SMA[k].den > dir * df[i].SMA[k].num}

\* the rows whose close equals their SMA of the k-th period, or that have none
SmaNeither(df, k) ==
    {i \in 1..Len(df) :
        \/ df[i].SMA[k] = NaN
        \/ df[i].Close * df[i].SMA[k].den = df[i].SMA[k].num}

\* the p+ and p- fields of a record, in the order of SMA_PERIODS
SmaFields(m) == <<<<m.P10, m.M10>>, <<m.P20, m.M20>>, <<m.P50, m.M50>>, <<m.P200, m.M200>>>>

\* C15: for each period p in {10,20,50,200} and a non-empty snapshot of n
\* rows, p+ is 100*count(close > SMA_p)/n and p- is 100*count(close < SMA_p)/n
\* rounded to 2 decimals; ties and rows without an SMA count toward neither,
\* so the two counts sum to n minus those rows; 20sma and 50sma are the raw
\* above-counts of the periods 20 and 50.
C15_SmaBreadthCounts ==
    Calculated =>
        LET n == Total(Snap, 1..Len(Snap))
            Holds(k, a, b, f) ==
                /\ f[1] = Pct(a, n)
                /\ f[2] = Pct(b, n)
                /\ NearestHundredth(f[1], 100 * a, n)
                /\ NearestHundredth(f[2], 100 * b, n)
                /\ a + b = n - Total(Snap, SmaNeither(Snap, k))
        IN  /\ \A k \in 1..Len(SMA_PERIODS) :
                   Holds(k, Total(Snap, SmaSide(Snap, k, 1)), Total(Snap, SmaSide(Snap, k, -1)),
                         SmaFields(bOut.metrics[1])[k])
            /\ bOut.metrics[1].Sma20 = Total(Snap, SmaSide(Snap, 2, 1))
            /\ bOut.metrics[1].Sma50 = Total(Snap, SmaSide(Snap, 3, 1))

\* 7 rows above their 10-day SMA beside 31 rows on it
C15_Witness ==
    /\ Calculated
    /\ Len(Snap) = 2
    /\ Snap[1].Symbol = "up"
    /\ Snap[2].Symbol = "edge"
    /\ Snap[1].n = 7
    /\ Snap[2].n = 31
    /\ bOut.metrics[1].P10 = 1842
    /\ bOut.metrics[1].M10 = 0
    /\ bOut.metrics[1].M20 = 0
    /\ bOut.metrics[1].Sma20 = 7
    /\ bOut.metrics[1].Sma50 = 7

\* 100 * c / n in hundredths, rounded to 2 decimals with ties going up
HalfUp(c, n) == (20000 * c + n) \div (2 * n)

\* the rows at (dir = 1) or below (dir = -1) their 52-week high or low
AtExtreme(df, dir) ==
    {i \in 1..Len(df) :
        IF dir = 1
        THEN df[i].High_52W # NaN /\ df[i].Close * df[i].High_52W.den >= df[i].High_52W.num
        ELSE df[i].Low_52W # NaN /\ df[i].Close * df[i].Low_52W.den <= df[i].Low_52W.num}

\* C16: every percentage field of a record equals 100*c/n rounded to 2
\* decimal places with half-up rounding, for its count c in 0..n and the row
\* count n >= 1; a 5 in the third decimal place (c = 1, n = 32: 3.125) is
\* rounded up (3.13).
C16_HalfUpRounding ==
    Calculated =>
        LET n == Total(Snap, 1..Len(Snap))
            m == bOut.metrics[1]
        IN  /\ m.WH52 = HalfUp(Total(Snap, AtExtreme(Snap, 1)), n)
            /\ m.WL52 = HalfUp(Total(Snap, AtExtreme(Snap, -1)), n)
            /\ m.Up45 = HalfUp(Total(Snap, Movers(Snap, 1)), n)
            /\ m.Down45 = HalfUp(Total(Snap, Movers(Snap, -1)), n)
            /\ \A k \in 1..Len(SMA_PERIODS) :
                   /\ SmaFields(m)[k][1] = HalfUp(Total(Snap, SmaSide(Snap, k, 1)), n)
                   /\ SmaFields(m)[k][2] = HalfUp(Total(Snap, SmaSide(Snap, k, -1)), n)

\* the record of the claim's example: one row of 32 above the threshold
C16_TieRoundedToEven ==
    /\ Calculated
    /\ Total(Snap, 1..Len(Snap)) = 32
    /\ Total(Snap, Movers(Snap, 1)) = 1
    /\ bOut.metrics[1].Up45 = 312

\* away from ties the fields are the half-up values
C16_NoTieAgrees ==
    /\ Calculated
    /\ Total(Snap, 1..Len(Snap)) = 38
    /\ Total(Snap, Movers(Snap, 1)) = 7
    /\ bOut.metrics[1].Up45 = HalfUp(7, 38)

----------------------------------------------------------------------------
(* TradingCalendar harness: is_trading_day, get_previous_trading_day,      *)
(* get_next_trading_day and get_trading_days_in_range on one input date    *)
(* (now) and one holiday supply (holidays).                                *)

\* the calendar days of the inputs: a Friday, a Saturday, a Monday, a Wednesday
InputDays == {47, 48, 50, 52}

\* midnight, 09:00, 18:30 and 23:00
InputTimes == {0, 540, 1110, 1380}

Zones == {"IST", "naive", "UTC"}

\* the holiday supplies: none, a Friday, a Tuesday, every day, and two
\* blocks of 30 days around day 50 that leave the days 19 and 81 open
Supplies ==
    {{}, {47}, {51}, 1..100, (20..49) \cup (51..80)}

CalInit ==
    /\ \E d \in InputDays, t \in InputTimes, z \in Zones : now = DT(d, t, z)
    /\ holidays \in Supplies
    /\ stocks = Materialize([c \in Cohorts |-> NoFile])
    /\ daily = [d \in 1..MaxDay |-> NoFile]
    /\ ledger = NoFile
    /\ basis = [d \in 1..MaxDay |-> 0]
    /\ lastCmd = [seq |-> 0, op |-> "none", date |-> 0, result |-> "", invoked |-> <<>>,
                  L |-> 0, T |-> 0, wrote |-> FALSE, again |-> FALSE]
    /\ HarnessIdle
    /\ WritersIdle
    /\ FunctionsIdle

\* is_trading_day(date)
KIsTrading ==
    /\ kOut = <<>>
    /\ kOut' = <<[op |-> "is", result |-> is_trading_day(now, holidays)]>>
    /\ UNCHANGED <<pvars, cvars, wvars, bOut>>

\* get_previous_trading_day(date)
KPrev ==
    /\ kOut = <<>>
    /\ kOut' = <<[op       |-> "prev",
                  result   |-> get_previous_trading_day(now, holidays),
                  attempts |-> WalkBack(AddDays(EnsureIST(now), -1), 0, holidays)[2]]>>
    /\ UNCHANGED <<pvars, cvars, wvars, bOut>>

\* get_next_trading_day(date)
KNext ==
    /\ kOut = <<>>
    /\ kOut' = <<[op       |-> "next",
                  result   |-> get_next_trading_day(now, holidays),
                  attempts |-> WalkAhead(AddDays(EnsureIST(now), 1), 0, holidays)[2]]>>
    /\ UNCHANGED <<pvars, cvars, wvars, bOut>>

\* get_trading_days_in_range(start_date, end_date) with start_date = date
\* and an end_date of the same timezone
KRange ==
    /\ kOut = <<>>
    /\ \E e \in -1..4, t \in InputTimes :
           kOut' = <<[op     |-> "range",
                      end    |-> DT(now.day + e, t, now.tz),
                      result |-> get_trading_days_in_range(
                                     now, DT(now.day + e, t, now.tz), holidays)]>>
    /\ UNCHANGED <<pvars, cvars, wvars, bOut>>

CalNext == KIsTrading \/ KPrev \/ KNext \/ KRange

SpecCal == CalInit /\ [][CalNext]_vars

----------------------------------------------------------------------------
(* Properties of the trading calendar, stated on the input date, the       *)
(* holiday supply and the result in kOut.                                  *)

\* the calendar day of a datetime in IST; a naive datetime is taken as IST
LocalDay(dt) == (Instant(dt) + 330) \div 1440

Weekend(day) == (day - 1) % 7 \in {5, 6}

\* a trading day of the calendar: not a Saturday or Sunday, not a supplied holiday
TradingDay(day) == ~Weekend(day) /\ day \notin holidays

\* C17: is_trading_day(date) is false on a Saturday or Sunday, false when
\* the date's calendar day in IST is a supplied holiday, and true otherwise;
\* the answer depends only on that calendar day, not on the time of day or
\* on the timezone the input is expressed in.
C17_CalendarDayOnly ==
    (kOut # <<>> /\ kOut[1].op = "is") => (kOut[1].result <=> TradingDay(LocalDay(now)))

\* for inputs expressed in IST, or naive, the answer is that of the calendar day
C17_LocalInputs ==
    (kOut # <<>> /\ kOut[1].op = "is" /\ now.tz # "UTC")
        => (kOut[1].result <=> TradingDay(now.day))

\* a holiday given as 09:00 UTC (14:30 IST of the same day) is taken for a trading day
C17_HolidayInUTC ==
    /\ kOut # <<>>
    /\ kOut[1].op = "is"
    /\ now = DT(47, 540, "UTC")
    /\ holidays = {47}
    /\ kOut[1].result = TRUE

\* a Friday 23:00 UTC is a Saturday in IST, and is taken for a trading day
C17_SaturdayInUTC ==
    /\ kOut # <<>>
    /\ kOut[1].op = "is"
    /\ now = DT(47, 1380, "UTC")
    /\ holidays = {}
    /\ LocalDay(now) = 48
    /\ kOut[1].result = TRUE

\* a holiday at any time of day in IST is not a trading day
C17_HolidayInIST ==
    /\ kOut # <<>>
    /\ kOut[1].op = "is"
    /\ now = DT(47, 1380, "IST")
    /\ holidays = {47}
    /\ kOut[1].result = FALSE

\* the candidates a walk from day d examines: the first one and 30 steps beyond it
Candidates(d, dir) == {d + dir * k : k \in 1..(max_attempts + 1)}

\* C18: for a date d and a holiday supply with a trading day within the walk
\* bound, get_previous_trading_day(d) is the latest trading day strictly
\* before d and get_next_trading_day(d) the earliest strictly after d (no
\* trading day lies strictly between d and the result), at midnight.
C18_NearestTradingDay ==
    (kOut # <<>> /\ kOut[1].op \in {"prev", "next"} /\ now.tz # "UTC") =>
        LET Holds(dir, r) ==
                (\E c \in Candidates(now.day, dir) : TradingDay(c)) =>
                    /\ TradingDay(r.day)
                    /\ dir * (r.day - now.day) > 0
                    /\ \A c \in Candidates(now.day, dir) :
                           (TradingDay(c) => dir * (c - r.day) >= 0)
                    /\ r.tod = 0
                    /\ r.tz = "IST"
        IN  Holds(IF kOut[1].op = "prev" THEN -1 ELSE 1, kOut[1].result)

\* when the trading day is found before the attempts run out, the result is
\* the nearest trading day at midnight
C18_NearestFoundEarly ==
    (kOut # <<>> /\ kOut[1].op \in {"prev", "next"} /\ now.tz # "UTC"
                 /\ kOut[1].attempts < max_attempts) =>
        LET Holds(dir, r) ==
                /\ TradingDay(r.day)
                /\ dir * (r.day - now.day) > 0
                /\ \A c \in Candidates(now.day, dir) :
                       (TradingDay(c) => dir * (c - r.day) >= 0)
                /\ r = DT(r.day, 0, "IST")
        IN  Holds(IF kOut[1].op = "prev" THEN -1 ELSE 1, kOut[1].result)

\* the Saturday of the example: the preceding Friday
C18_SaturdayToFriday ==
    /\ kOut # <<>>
    /\ kOut[1].op = "prev"
    /\ now = DT(48, 1110, "IST")
    /\ holidays = {51}
    /\ kOut[1].result = DT(47, 0, "IST")

\* the trading day found on the last attempt is returned with the time of
\* day of the input
C18_FoundOnLastAttempt ==
    /\ kOut # <<>>
    /\ kOut[1].op = "prev"
    /\ now = DT(50, 1110, "IST")
    /\ kOut[1].attempts = max_attempts
    /\ TradingDay(19)
    /\ kOut[1].result = DT(19, 1110, "IST")

\* C19: for every date and every holiday supply, also one that marks every
\* day a holiday, get_next_trading_day and get_previous_trading_day end
\* after at most 30 one-day steps beyond the first candidate; when the
\* steps are used up they return the farthest date reached.
C19_BoundedWalk ==
    (kOut # <<>> /\ kOut[1].op \in {"prev", "next"}) =>
        LET Holds(dir, r, attempts) ==
                /\ attempts <= max_attempts
                /\ dir * (r.day - now.day) = attempts + 1
                /\ attempts = max_attempts => r = AddDays(EnsureIST(now), dir * (max_attempts + 1))
        IN  Holds(IF kOut[1].op = "prev" THEN -1 ELSE 1, kOut[1].result, kOut[1].attempts)

\* every day is a holiday: the walk ahead gives up 31 days after the input
C19_Witness ==
    /\ kOut # <<>>
    /\ kOut[1].op = "next"
    /\ holidays = 1..100
    /\ now = DT(52, 540, "IST")
    /\ kOut[1].attempts = max_attempts
    /\ kOut[1].result = DT(83, 540, "IST")

C19_WitnessBack ==
    /\ kOut # <<>>
    /\ kOut[1].op = "prev"
    /\ holidays = 1..100
    /\ now = DT(52, 540, "naive")
    /\ kOut[1].attempts = max_attempts
    /\ kOut[1].result = DT(21, 540, "IST")

\* the calendar days of a list of datetimes
DaysOf(seq) == [i \in 1..Len(seq) |-> seq[i].day]

\* C20: get_trading_days_in_range(start, end) returns exactly the trading
\* days whose calendar day lies between the calendar days of start and end,
\* both inclusive, ascending and without duplicates, whatever the times of
\* day of start and end; it returns the empty sequence when start is after end.
\* (Nothing is asked of a start later in the day than an end of the same day.)
C20_InclusiveRange ==
    (kOut # <<>> /\ kOut[1].op = "range" /\ now.tz # "UTC") =>
        LET Holds(days, first, last) ==
                /\ (first < last \/ (first = last /\ now.tod <= kOut[1].end.tod)) =>
                       /\ {days[i] : i \in 1..Len(days)} = {c \in first..last : TradingDay(c)}
                       /\ \A i \in 1..(Len(days) - 1) : days[i] < days[i + 1]
                /\ first > last => days = <<>>
        IN  Holds(DaysOf(kOut[1].result), now.day, kOut[1].end.day)

\* when end is not earlier in the day than start, the range is the inclusive one
C20_RangeWhenEndLater ==
    (kOut # <<>> /\ kOut[1].op = "range" /\ now.tz # "UTC" /\ now.tod <= kOut[1].end.tod) =>
        LET Holds(days, first, last) ==
                /\ {days[i] : i \in 1..Len(days)} = {c \in first..last : TradingDay(c)}
                /\ \A i \in 1..(Len(days) - 1) : days[i] < days[i + 1]
        IN  Holds(DaysOf(kOut[1].result), now.day, kOut[1].end.day)

\* from Monday 18:30 to Wednesday 09:00 the Wednesday is left out
C20_EndDayDropped ==
    /\ kOut # <<>>
    /\ kOut[1].op = "range"
    /\ now = DT(50, 1110, "IST")
    /\ kOut[1].end = DT(52, 540, "IST")
    /\ holidays = {}
    /\ kOut[1].result = <<DT(50, 1110, "IST"), DT(51, 1110, "IST")>>

----------------------------------------------------------------------------
(* Consolidator harness: consolidate_date / create_daily_consolidated_file *)
(* on a universe whose symbols have no series, an empty series, or series  *)
(* with and without a bar on the date, and the breadth of the snapshot.    *)

\* the series a symbol may have on disk
SeriesFiles ==
    {NoFile, File(<<>>), File(GenSeries(3, 1, "asc")), File(GenSeries(7, 2, "desc")),
     File(GenSeries(11, 2, "asc"))}

\* the dates consolidated: a day every series has, two days only the longer
\* series have, a weekend day, a day before every bar
SnapDays == {2, 4, 5, 6, 0}

SnapInit ==
    /\ now = DT(StartDay, 1080, "IST")
    /\ holidays = HolidayDays
    /\ stocks \in [Cohorts -> SeriesFiles]
    /\ daily = [d \in 0..MaxDay |-> NoFile]
    /\ ledger = NoFile
    /\ basis = [d \in 1..MaxDay |-> 0]
    /\ lastCmd = [seq |-> 0, op |-> "none", date |-> 0, result |-> "", invoked |-> <<>>,
                  L |-> 0, T |-> 0, wrote |-> FALSE, again |-> FALSE]
    /\ WritersIdle
    /\ wFile = NoFile
    /\ \E d \in SnapDays : wRef = DT(d, 1080, "IST")
    /\ wRows = <<>>
    /\ wGrown = 0
    /\ FunctionsIdle

\* create_daily_consolidated_file(date, symbols)
SConsolidate ==
    /\ wGrown = 0
    /\ daily' = create_daily_consolidated_file(wRef, symbols, stocks, daily)
    /\ wGrown' = 1
    /\ UNCHANGED <<now, holidays, stocks, ledger, basis, lastCmd, cvars, wFile, wRef, wRows, hvars>>

\* calculate_breadth_metrics on the stored snapshot
SCalculate ==
    /\ wGrown = 1
    /\ ~bOut.done
    /\ load_daily_consolidated(wRef, daily).exists
    /\ bOut' = [done    |-> TRUE,
                metrics |-> calculate_breadth_metrics(
                                load_daily_consolidated(wRef, daily).rows, wRef)]
    /\ UNCHANGED <<pvars, cvars, wvars, kOut>>

SnapNext == SConsolidate \/ SCalculate

SpecSnap == SnapInit /\ [][SnapNext]_vars

\* the rows of the snapshot written for the date: none when no file was written
SnapRows == daily[DateOf(wRef)].rows

\* the bars of a symbol's series dated exactly on the date
BarsOn(c) == {b \in Range(stocks[c].rows) : b.Date = DateOf(wRef)}

\* the positions of the snapshot rows of a symbol
RowsOf(c) == {i \in 1..Len(SnapRows) : SnapRows[i].Symbol = c}

\* C21: the snapshot has exactly one row for a symbol if and only if the
\* symbol has a non-empty series with a bar dated exactly on the date; a
\* symbol with no series, an empty series or no bar on the date is skipped
\* without aborting or altering the rows of the other symbols, and the row's
\* OHLCV are those of the symbol's bar on that date.
C21_SnapshotMembership ==
    wGrown = 1 =>
        \A c \in Cohorts :
            /\ Cardinality(RowsOf(c)) = (IF BarsOn(c) # {} THEN 1 ELSE 0)
            /\ \A i \in RowsOf(c) :
                   /\ \E b \in BarsOn(c) :
                          /\ SnapRows[i].Open = b.Open
                          /\ SnapRows[i].High = b.High
                          /\ SnapRows[i].Low = b.Low
                          /\ SnapRows[i].Close = b.Close
                          /\ SnapRows[i].Volume = b.Volume
                   /\ <<SnapRows[i]>> = consolidate_date(wRef, <<c>>, stocks)

\* one symbol without a file, one with an empty series, one with a bar on the date
C21_Witness ==
    /\ wGrown = 1
    /\ stocks[1] = NoFile
    /\ stocks[2] = File(<<>>)
    /\ BarsOn(3) # {}
    /\ Len(SnapRows) = 1
    /\ SnapRows[1].Symbol = 3

\* a symbol whose series has no bar on the date, between two that have one
C21_WitnessNoBar ==
    /\ wGrown = 1
    /\ DateOf(wRef) = 4
    /\ stocks[2].rows # <<>>
    /\ BarsOn(2) = {}
    /\ Len(SnapRows) = 2
    /\ SnapRows[1].Symbol = 1
    /\ SnapRows[2].Symbol = 3

\* the rows of a frame whose close equals a 52-week extreme
TouchExtreme(df, dir) ==
    {i \in 1..Len(df) :
        IF dir = 1 THEN Num(df[i].Close) = df[i].High_52W
        ELSE Num(df[i].Close) = df[i].Low_52W}

\* C28: for every row consolidate_date emits, High_52W >= the row's High and
\* Low_52W <= the row's Low (the bar of the date lies inside its own trailing
\* window); hence, for bars with low <= close <= high, a row counts toward
\* 52WH only when its close equals High_52W and toward 52WL only when its
\* close equals Low_52W.
C28_SnapshotRowBounds ==
    /\ wGrown = 1 =>
           \A i \in 1..Len(SnapRows) :
               /\ SnapRows[i].High_52W # NaN
               /\ SnapRows[i].Low_52W # NaN
               /\ SnapRows[i].High_52W.num >= SnapRows[i].High * SnapRows[i].High_52W.den
               /\ SnapRows[i].Low_52W.num <= SnapRows[i].Low * SnapRows[i].Low_52W.den
               /\ (SnapRows[i].Low <= SnapRows[i].Close /\ SnapRows[i].Close <= SnapRows[i].High)
                      => /\ GeF(SnapRows[i].Close, SnapRows[i].High_52W)
                                => Num(SnapRows[i].Close) = SnapRows[i].High_52W
                         /\ LeF(SnapRows[i].Close, SnapRows[i].Low_52W)
                                => Num(SnapRows[i].Close) = SnapRows[i].Low_52W
    /\ (wGrown = 1 /\ bOut.done /\ bOut.metrics # <<>>) =>
           /\ bOut.metrics[1].WH52
                  = Pct(Total(SnapRows, TouchExtreme(SnapRows, 1)), Total(SnapRows, 1..Len(SnapRows)))
           /\ bOut.metrics[1].WL52
                  = Pct(Total(SnapRows, TouchExtreme(SnapRows, -1)), Total(SnapRows, 1..Len(SnapRows)))

\* a snapshot with a row closing on its 52-week high, a row closing
\* below it and a row whose 52-week low lies below its own low
C28_Witness ==
    /\ wGrown = 1
    /\ bOut.done
    /\ bOut.metrics # <<>>
    /\ TouchExtreme(SnapRows, 1) # {}
    /\ \E i \in 1..Len(SnapRows) : SnapRows[i].High_52W.num > SnapRows[i].Close
    /\ \E i \in 1..Len(SnapRows) : SnapRows[i].Low_52W.num < SnapRows[i].Low
    /\ bOut.metrics[1].WH52 > 0
    /\ bOut.metrics[1].WH52 < 10000

----------------------------------------------------------------------------
(* data_validator: validate_stock_data and remove_invalid_rows.  A cell of  *)
(* a frame is <<v>>, or <<>> when it is null; prices are in thousandths.    *)

required_cols == <<"Date", "Open", "High", "Low", "Close", "Volume">>

price_cols == <<"Open", "High", "Low", "Close">>

\* MIN_PRICE = 0.01, in thousandths
MIN_PRICE == 10

MIN_VOLUME == 0

\* comparisons of cells; a comparison with a null cell is False
CellLt(a, b) == a # <<>> /\ b # <<>> /\ a[1] < b[1]

CellGt(a, b) == a # <<>> /\ b # <<>> /\ a[1] > b[1]

CellGe(a, b) == a # <<>> /\ b # <<>> /\ a[1] >= b[1]

CellLe(a, b) == a # <<>> /\ b # <<>> /\ a[1] <= b[1]

\* df.columns of a frame with rows
ColumnsOf(df) == DOMAIN df[1]

\* the issue list of validate_stock_data, an issue being <<column, complaint>>;
\* is_valid is that the list is empty.
\* df is NoFile (None) or a file with its frame.
validate_stock_data(df) ==
    IF ~df.exists \/ df.rows = <<>> THEN <<<<"DataFrame", "is empty">>>>
    ELSE IF \E k \in 1..Len(required_cols) : required_cols[k] \notin ColumnsOf(df.rows)
    THEN <<<<"DataFrame", "Missing columns">>>>
    ELSE
        LET rows == df.rows
            idx  == 1..Len(rows)
            Tag(cols, what) == [k \in 1..Len(cols) |-> <<cols[k], what>>]
            nulls == SelectSeq(required_cols, LAMBDA col : \E i \in idx : rows[i][col] = <<>>)
            low   == SelectSeq(price_cols,
                               LAMBDA col : \E i \in idx : CellLt(rows[i][col], <<MIN_PRICE>>))
        IN  Tag(nulls, "has null values")
                \o Tag(low, "has negative/zero values")
                \o (IF \E i \in idx : CellLt(rows[i].Volume, <<MIN_VOLUME>>)
                    THEN <<<<"Volume", "has negative values">>>> ELSE <<>>)
                \o (IF \E i \in idx : CellLt(rows[i].High, rows[i].Low)
                    THEN <<<<"High", "High < Low">>>> ELSE <<>>)
                \o (IF \E i \in idx : \/ CellGt(rows[i].Close, rows[i].High)
                                      \/ CellLt(rows[i].Close, rows[i].Low)
                    THEN <<<<"Close", "Close outside High/Low range">>>> ELSE <<>>)
                \o (IF \E i, j \in idx : i < j /\ rows[i].Date = rows[j].Date
                    THEN <<<<"Date", "duplicate dates found">>>> ELSE <<>>)

\* df.dropna()
dropna(df) == SelectSeq(df, LAMBDA r : \A col \in DOMAIN r : r[col] # <<>>)

\* the frame remove_invalid_rows returns
remove_invalid_rows(df) ==
    LET priced == SelectSeq(dropna(df),
                            LAMBDA r : \A k \in 1..Len(price_cols) :
                                           CellGt(r[price_cols[k]], <<MIN_PRICE>>))
        hl     == SelectSeq(priced, LAMBDA r : CellGe(r.High, r.Low))
        inside == SelectSeq(hl, LAMBDA r : CellGe(r.Close, r.Low) /\ CellLe(r.Close, r.High))
    IN  DropDuplicatesKeepLast(inside)

----------------------------------------------------------------------------
(* Validator harness: validate_stock_data and remove_invalid_rows on short  *)
(* series of bars with and without defects.                                 *)

Cell(v) == <<v>>

Null == <<>>

Bar(d, o, h, l, c, v) ==
    [Date |-> d, Open |-> o, High |-> h, Low |-> l, Close |-> c, Volume |-> v]

\* the bars of the harness: sound bars (also at the smallest prices and at
\* zero volume) and one bar for each defect
BarKinds ==
    [good      |-> Bar(Cell(1), Cell(100000), Cell(105000), Cell(99000), Cell(104000), Cell(500)),
     later     |-> Bar(Cell(2), Cell(104000), Cell(104000), Cell(101000), Cell(101000), Cell(0)),
     again     |-> Bar(Cell(1), Cell(100000), Cell(106000), Cell(98000), Cell(98000), Cell(700)),
     atmin     |-> Bar(Cell(3), Cell(10), Cell(12), Cell(10), Cell(11), Cell(900)),
     submin    |-> Bar(Cell(4), Cell(5), Cell(6), Cell(4), Cell(5), Cell(900)),
     zero      |-> Bar(Cell(5), Cell(0), Cell(105000), Cell(0), Cell(104000), Cell(500)),
     negative  |-> Bar(Cell(6), Cell(100000), Cell(105000), Cell(-1000), Cell(104000), Cell(500)),
     negvolume |-> Bar(Cell(7), Cell(100000), Cell(105000), Cell(99000), Cell(104000), Cell(-1)),
     inverted  |-> Bar(Cell(8), Cell(100000), Cell(99000), Cell(105000), Cell(104000), Cell(500)),
     above     |-> Bar(Cell(9), Cell(100000), Cell(105000), Cell(99000), Cell(106000), Cell(500)),
     below     |-> Bar(Cell(10), Cell(100000), Cell(105000), Cell(99000), Cell(98000), Cell(500)),
     nullclose |-> Bar(Cell(11), Cell(100000), Cell(105000), Cell(99000), Null, Cell(500)),
     nullvol   |-> Bar(Cell(12), Cell(100000), Cell(105000), Cell(99000), Cell(104000), Null),
     nulldate  |-> Bar(Null, Cell(100000), Cell(105000), Cell(99000), Cell(104000), Cell(500))]

BarNames == DOMAIN BarKinds

\* a frame without the Volume column
NoVolumeFrame == <<[Date |-> Cell(1), Open |-> Cell(100000), High |-> Cell(105000),
                    Low |-> Cell(99000), Close |-> Cell(104000)]>>

\* the inputs: None, the empty frame, a frame without a required column, and
\* the frames of one or two bars
ValInputs ==
    {NoFile, File(<<>>), File(NoVolumeFrame)}
        \cup {File(<<BarKinds[a]>>) : a \in BarNames}
        \cup {File(<<BarKinds[a[1]], BarKinds[a[2]]>>) : a \in BarNames \X BarNames}

ValInit ==
    /\ PipelineIdle
    /\ WritersIdle
    /\ FunctionsIdle
    /\ wFile \in ValInputs
    /\ wRef = DT(0, 0, "IST")
    /\ wRows = <<>>
    /\ wGrown = 0

\* validate_stock_data(df, symbol)
VValidate ==
    /\ wRows = <<>>
    /\ wRows' = <<[op |-> "validate", issues |-> validate_stock_data(wFile)]>>
    /\ UNCHANGED <<wFile, wRef, wGrown>>
    /\ UNCHANGED <<pvars, cvars, hvars>>

\* remove_invalid_rows(df) followed by validate_stock_data on its result
VClean ==
    /\ wRows = <<>>
    /\ wFile.exists
    /\ wFile.rows # <<>> => \A k \in 1..Len(required_cols) :
                                required_cols[k] \in ColumnsOf(wFile.rows)
    /\ \E cleaned \in {remove_invalid_rows(wFile.rows)} :
           wRows' = <<[op |-> "clean", rows |-> cleaned,
                       issues |-> validate_stock_data(File(cleaned))]>>
    /\ UNCHANGED <<wFile, wRef, wGrown>>
    /\ UNCHANGED <<pvars, cvars, hvars>>

ValNext == VValidate \/ VClean

SpecVal == ValInit /\ [][ValNext]_vars

\* the values of a frame's cells in a column; a null cell has none
Values(rows, col) == {rows[i][col][1] : i \in {j \in 1..Len(rows) : rows[j][col] # <<>>}}

\* the checks of a series, on a frame with all required columns: no null in
\* a required field, every price at least floor, no negative volume,
\* high >= low and low <= close <= high in every bar, no two bars share a date
NoNulls(rows) == \A i \in 1..Len(rows), k \in 1..Len(required_cols) : rows[i][required_cols[k]] # <<>>

PricesFrom(rows, floor) ==
    \A k \in 1..Len(price_cols) : \A v \in Values(rows, price_cols[k]) : v >= floor

VolumesSound(rows) == \A v \in Values(rows, "Volume") : v >= 0

BarsOrdered(rows) ==
    \A i \in 1..Len(rows) :
        (rows[i].High # <<>> /\ rows[i].Low # <<>> /\ rows[i].Close # <<>>) =>
            /\ rows[i].High[1] >= rows[i].Low[1]
            /\ rows[i].Low[1] <= rows[i].Close[1]
            /\ rows[i].Close[1] <= rows[i].High[1]

DatesUnique(rows) == \A i, j \in 1..Len(rows) : i # j => rows[i].Date # rows[j].Date

\* the series is sound when every price is at least floor
Sound(file, floor) ==
    /\ file.exists
    /\ file.rows # <<>>
    /\ \A k \in 1..Len(required_cols) : required_cols[k] \in DOMAIN file.rows[1]
    /\ NoNulls(file.rows)
    /\ PricesFrom(file.rows, floor)
    /\ VolumesSound(file.rows)
    /\ BarsOrdered(file.rows)
    /\ DatesUnique(file.rows)

Validated == wRows # <<>> /\ wRows[1].op = "validate"

\* C22: validate_stock_data reports a series as valid (empty issue list) if
\* and only if the series is non-empty, has all required fields, has no null
\* in a required field, every price is positive, every volume is
\* non-negative, high >= low and low <= close <= high in every bar, and no
\* two bars share a date.
C22_ValidIffSound ==
    Validated => (wRows[1].issues = <<>> <=> Sound(wFile, 1))

\* with prices required to be at least MIN_PRICE the equivalence holds
C22_ValidIffSoundFromMinPrice ==
    Validated => (wRows[1].issues = <<>> <=> Sound(wFile, MIN_PRICE))

\* a bar whose prices are positive but below MIN_PRICE is reported with
\* negative/zero values
C22_SmallPricesRejected ==
    /\ Validated
    /\ wFile = File(<<BarKinds["submin"]>>)
    /\ Sound(wFile, 1)
    /\ Len(wRows[1].issues) = 4
    /\ \A k \in 1..4 : wRows[1].issues[k] = <<price_cols[k], "has negative/zero values">>

\* a sound series of two bars is reported valid
C22_SoundAccepted ==
    /\ Validated
    /\ wFile = File(<<BarKinds["good"], BarKinds["later"]>>)
    /\ wRows[1].issues = <<>>

Cleaned == wRows # <<>> /\ wRows[1].op = "clean"

\* the bars of a frame that violate none of the validator's per-bar checks
SoundBars(rows) ==
    {i \in 1..Len(rows) : Sound(File(<<rows[i]>>), MIN_PRICE)}

\* the last among the sound bars that share a date
LastSound(rows) ==
    {i \in SoundBars(rows) : \A j \in SoundBars(rows) : rows[j].Date = rows[i].Date => j <= i}

\* C29: for every series with all required columns, the result of
\* remove_invalid_rows is empty or passes validate_stock_data with no
\* issues, and remove_invalid_rows keeps every bar that violates none of the
\* validator's per-bar checks (the last one among those sharing a date).
C29_CleaningAgrees ==
    Cleaned =>
        /\ wRows[1].rows = <<>> \/ wRows[1].issues = <<>>
        /\ \A i \in LastSound(wFile.rows) : \E k \in 1..Len(wRows[1].rows) :
               wRows[1].rows[k] = wFile.rows[i]

\* cleaning never keeps a bar it was not given, and keeps no two bars of a date
C29_CleaningSelects ==
    Cleaned =>
        /\ \A k \in 1..Len(wRows[1].rows) : \E i \in 1..Len(wFile.rows) :
               wRows[1].rows[k] = wFile.rows[i]
        /\ DatesUnique(wRows[1].rows)
        /\ NoNulls(wRows[1].rows)
        /\ BarsOrdered(wRows[1].rows)

\* a bar with a negative volume survives the cleaning, and the cleaned
\* series fails the validation
C29_NegativeVolumeKept ==
    /\ Cleaned
    /\ wFile = File(<<BarKinds["good"], BarKinds["negvolume"]>>)
    /\ wRows[1].rows = wFile.rows
    /\ wRows[1].issues = <<<<"Volume", "has negative values">>>>

\* a bar with prices from MIN_PRICE on passes the validator's checks and is
\* removed by the cleaning
C29_MinPriceRemoved ==
    /\ Cleaned
    /\ wFile = File(<<BarKinds["atmin"]>>)
    /\ validate_stock_data(wFile) = <<>>
    /\ wRows[1].rows = <<>>

----------------------------------------------------------------------------
(* Series harness: a sequence of append_stock_data calls for one symbol,    *)
(* starting without a file, with fetched batches that may overlap.          *)

MaxAppends == 2

\* the calendar days a batch may cover
BatchDays == 1..4

\* a fetched bar of a day; a later fetch may report other values for the
\* same day (an adjusted or a completed bar)
FetchedBar(d, version) ==
    [Date |-> d, Open |-> 100 + d, High |-> 110 + d + version, Low |-> 90 + d,
     Close |-> 100 + d + 3 * version, Volume |-> 1000 * version + d]

\* a fetched batch: the bars of consecutive days, ascending
FetchedBatch(from, to, version) ==
    Materialize([i \in 1..(to - from + 1) |-> FetchedBar(from + i - 1, version)])

AppendInit ==
    /\ PipelineIdle
    /\ WritersIdle
    /\ FunctionsIdle
    /\ wFile = NoFile
    /\ wRef = DT(0, 0, "IST")
    /\ wRows = <<>>
    /\ wGrown = 0

\* append_stock_data(symbol, df); wRows keeps the batches appended
AAppend ==
    /\ wGrown < MaxAppends
    /\ \E from \in BatchDays, to \in BatchDays, version \in 0..1 :
           /\ from <= to
           /\ \E df \in {FetchedBatch(from, to, version)} :
                  /\ wFile' = append_stock_data(wFile, df)
                  /\ wRows' = Append(wRows, df)
    /\ wGrown' = wGrown + 1
    /\ UNCHANGED wRef
    /\ UNCHANGED <<pvars, cvars, hvars>>

\* load_stock_data(symbol) between the appends: the file is left as it is
ALoad ==
    /\ wGrown < MaxAppends
    /\ wFile.exists
    /\ wRef = DT(0, 0, "IST")
    /\ wRef' = DT(load_stock_data(wFile).rows[1].Date, 0, "IST")
    /\ UNCHANGED <<wFile, wRows, wGrown>>
    /\ UNCHANGED <<pvars, cvars, hvars>>

AppendNext == AAppend \/ ALoad

SpecAppend == AppendInit /\ [][AppendNext]_vars

\* C23: after any sequence of append_stock_data calls for a symbol, starting
\* with no file, the persisted series has no two bars with the same date and
\* is sorted ascending by date.
C23_SeriesStrictlyIncreasing ==
    \A i \in 1..(Len(wFile.rows) - 1) : wFile.rows[i].Date < wFile.rows[i + 1].Date

\* two batches that overlap: the series holds each day once
C23_Witness ==
    /\ Len(wRows) = 2
    /\ wRows[1] = FetchedBatch(2, 4, 0)
    /\ wRows[2] = FetchedBatch(1, 3, 1)
    /\ Len(wFile.rows) = 4

\* the stored bar of a day: none or one
StoredOn(file, d) == {b \in Range(file.rows) : b.Date = d}

\* C24: once a bar for a date is stored in the symbol's series, no later
\* append_stock_data call changes the stored open/high/low/close/volume of
\* that date, also when the fetched batch has a bar for the date with
\* different values.
C24_BarsImmutable ==
    [][\A d \in BatchDays : StoredOn(wFile, d) # {} => StoredOn(wFile', d) = StoredOn(wFile, d)]_vars

\* an append whose batch agrees with the stored bars on the dates they share
\* changes no stored bar
C24_AgreeingBatchKeepsBars ==
    [][(Len(wRows') > Len(wRows)
            /\ \A d \in BatchDays : \A b \in StoredOn(wFile, d) :
                   \A k \in 1..Len(wRows'[Len(wRows')]) :
                       wRows'[Len(wRows')][k].Date = d => wRows'[Len(wRows')][k] = b)
        => \A d \in BatchDays :
               StoredOn(wFile, d) # {} => StoredOn(wFile', d) = StoredOn(wFile, d)]_vars

\* the bar of day 2 was stored from the first batch and holds the values of
\* the second
C24_StoredBarReplaced ==
    /\ Len(wRows) = 2
    /\ wRows[1] = FetchedBatch(1, 2, 0)
    /\ wRows[2] = FetchedBatch(2, 3, 1)
    /\ StoredOn(wFile, 2) = {FetchedBar(2, 1)}
    /\ FetchedBar(2, 1).Close # FetchedBar(2, 0).Close

----------------------------------------------------------------------------
(* Trading-day gating of the pipeline commands                             *)

\* the ledger records of a day
RecordsOn(file, d) == {r \in Range(file.rows) : r.Date = Str(d)}

\* a step of one of the pipeline commands init, daily and update
PipelineStep == lastCmd'.seq # lastCmd.seq /\ lastCmd'.op \in {"init", "daily", "update"}

\* C25: under the pipeline commands (init, daily with or without an explicit
\* target date, update) every date that gets a ledger record or a
\* consolidated snapshot file is a trading day, and running the daily
\* pipeline for a non-trading date leaves the stock series, the snapshot
\* files and the ledger unchanged.
C25_TradingDayGating ==
    [][PipelineStep =>
          /\ \A d \in 1..MaxDay :
                 /\ daily'[d] # daily[d] => TradingDay(d)
                 /\ RecordsOn(ledger', d) # RecordsOn(ledger, d) => TradingDay(d)
          /\ (lastCmd'.op = "daily" /\ ~TradingDay(lastCmd'.date))
                 => (stocks' = stocks /\ daily' = daily /\ ledger' = ledger)]_vars

\* the daily pipeline was run for the holiday and refused, with files and a
\* ledger in place
C25_Witness ==
    /\ lastCmd.op = "daily"
    /\ lastCmd.date \in holidays
    /\ lastCmd.result = "not a trading day"
    /\ ledger.exists
    /\ \E d \in 1..MaxDay : daily[d].exists
    /\ \E c \in Cohorts : \E i \in 1..Len(stocks[c].rows) : stocks[c].rows[i].Date = lastCmd.date

\* the daily pipeline stored a snapshot and a record for a trading day
C25_WitnessStored ==
    /\ lastCmd.op = "daily"
    /\ lastCmd.result = "done"
    /\ TradingDay(lastCmd.date)
    /\ daily[lastCmd.date].exists
    /\ RecordsOn(ledger, lastCmd.date) # {}

Walked == kOut # <<>> /\ kOut[1].op \in {"prev", "next"} /\ now.tz # "UTC"

\* the walk took the exhaustion path: error logged, date returned as reached
ExhaustionSignalled == kOut[1].attempts >= max_attempts

\* C26: get_next_trading_day / get_previous_trading_day take the exhaustion
\* path if and only if the date they return is not a trading day; whenever
\* the walk stops on a trading day, also one found at the last permitted
\* step, it is returned at midnight without signalling exhaustion.
C26_ExhaustionOnlyWhenExhausted ==
    Walked =>
        /\ ExhaustionSignalled <=> ~TradingDay(kOut[1].result.day)
        /\ TradingDay(kOut[1].result.day) => kOut[1].result.tod = 0

\* exhaustion is never missed: a result that is not a trading day comes with
\* the signal, and a result without the signal is a trading day at midnight
C26_NoMissedExhaustion ==
    Walked =>
        /\ ~TradingDay(kOut[1].result.day) => ExhaustionSignalled
        /\ ~ExhaustionSignalled =>
               (TradingDay(kOut[1].result.day) /\ kOut[1].result.tod = 0)

\* the walk ahead stops on the trading day 81 at the last step and signals exhaustion
C26_SignalledOnTradingDay ==
    /\ Walked
    /\ kOut[1].op = "next"
    /\ now = DT(50, 540, "IST")
    /\ kOut[1].result = DT(81, 540, "IST")
    /\ TradingDay(81)
    /\ ExhaustionSignalled


\* the dates that have a record in the ledger file
LedgerDates(file) == {r.Date : r \in Range(file.rows)}

\* a step of append_breadth_metrics(SnapDate), and one that saved the ledger
UpsertStep == lastCmd'.op = "upsert"

UpsertSaved == UpsertStep /\ lastCmd'.wrote

\* C27: an upsert for date d changes only the record of d: every other date
\* of the ledger keeps its record with the same sixteen field values, no
\* other date appears, and the header saved is BREADTH_COLUMNS in its order.
C27_UpsertFrame ==
    [][UpsertStep =>
          /\ \A e \in LedgerDates(ledger) \ {Str(DateOf(SnapDate))} :
                /\ RecordsOn(ledger', e.str) = RecordsOn(ledger, e.str)
                /\ \A r \in RecordsOn(ledger', e.str) : DOMAIN r = Range(BREADTH_COLUMNS)
          /\ LedgerDates(ledger') \subseteq LedgerDates(ledger) \cup {Str(DateOf(SnapDate))}
          /\ UpsertSaved => /\ kOut'[1].columns = BREADTH_COLUMNS
                            /\ Str(DateOf(SnapDate)) \in LedgerDates(ledger')]_vars

\* C27 happens: an upsert of day 2 has replaced the record of day 2 in a
\* ledger that holds days 1 and 3 as well, and has saved the fixed header
C27_Witness ==
    /\ lastCmd.op = "upsert" /\ lastCmd.wrote
    /\ LedgerDates(ledger) = {Str(1), Str(2), Str(3)}
    /\ Len(ledger.rows) = 3
    /\ kOut = <<[op |-> "to_csv", columns |-> BREADTH_COLUMNS]>>
    /\ \E led \in EarlierLedgers(daily) :
          /\ LedgerDates(led.ledger) = {Str(1), Str(2), Str(3)}
          /\ RecordsOn(led.ledger, 2) # RecordsOn(ledger, 2)

\* C27 happens on a ledger that did not exist: the header of the new file
C27_WitnessCreated ==
    /\ lastCmd.op = "upsert" /\ lastCmd.wrote
    /\ LedgerDates(ledger) = {Str(DateOf(SnapDate))}
    /\ kOut = <<[op |-> "to_csv", columns |-> BREADTH_COLUMNS]>>


----------------------------------------------------------------------------
(* Fetch harness: fetch_stock_data(symbol, start_date, end_date,           *)
(* retry_count), one step per attempt and per sleep. kOut holds the frame  *)
(* of the call: the arguments, the loop variable, the place in the code,   *)
(* the attempts and sleeps so far (log) and the value returned.            *)

MAX_RETRIES == 3

RETRY_DELAY == 2

RETRY_BACKOFF == 2

\* the largest retry_count a caller passes
MaxRetries == 4

RECURSIVE Pow(_, _)
Pow(b, e) == IF e = 0 THEN 1 ELSE b * Pow(b, e - 1)

\* utc_dt.replace(tzinfo=UTC) if naive; utc_dt.astimezone(IST)
convert_utc_to_ist(utc_dt) ==
    LET aware == IF utc_dt.tz = "naive" THEN [utc_dt EXCEPT !.tz = "UTC"] ELSE utc_dt
        local == Instant(aware) + utcoffset("IST")
    IN  DT(local \div 1440, local % 1440, "IST")

\* what ticker.history answers on one attempt
Outcomes == {"raises", "empty", "rows"}

\* the rows of a response: the bars of the days asked for, stamped with the
\* midnight of the exchange; a later attempt may see other values (version)
Response(from, to, version) ==
    Materialize([i \in 1..(to - from + 1) |->
                    [FetchedBar(from + i - 1, version) EXCEPT
                        !.Date = DT(from + i - 1, 0, "IST")]])

\* reset_index, the IST date of each row, the six columns
ReturnedFrame(df) ==
    Materialize([i \in 1..Len(df) |->
                    [df[i] EXCEPT !.Date = DateOf(convert_utc_to_ist(df[i].Date))]])

\* None
None == <<"None">>

\* if attempt < retry_count - 1
CanRetryThrough(attempt, retry_count) == attempt < retry_count

CanRetry(attempt, retry_count) == attempt < retry_count - 1

\* sleep_time = RETRY_DELAY * (RETRY_BACKOFF ** attempt)
sleep_time(attempt) == RETRY_DELAY * Pow(RETRY_BACKOFF, attempt)

\* the frame of a call that has reached the for statement
Called(from, to, retry_count) ==
    [op |-> "fetch", start_date |-> from, end_date |-> to, retry_count |-> retry_count,
     attempt |-> 0, at |-> "for", log |-> <<>>, result |-> <<>>]

FetchInit ==
    /\ PipelineIdle
    /\ HarnessIdle
    /\ WritersIdle
    /\ bOut = [done |-> FALSE, metrics |-> <<>>]
    /\ \E from \in 1..2, to \in 3..4, retry_count \in 0..MaxRetries :
          kOut = <<Called(from, to, retry_count)>>

\* one pass of the try block: ticker.history raises, answers nothing, or
\* answers rows; the except block up to the sleep
FAttempt ==
    /\ kOut[1].at = "for"
    /\ kOut[1].attempt < kOut[1].retry_count
    /\ \E outcome \in Outcomes, version \in 0..1 :
          LET f    == kOut[1]
              logged == Append(f.log, <<"attempt", f.attempt, outcome>>)
          IN  kOut' =
                <<IF outcome = "rows"
                  THEN [f EXCEPT !.log = logged, !.at = "returned",
                                 !.result = ReturnedFrame(
                                     Response(f.start_date, f.end_date, version))]
                  ELSE IF outcome = "empty"
                  THEN [f EXCEPT !.log = logged, !.at = "returned", !.result = None]
                  ELSE IF CanRetry(f.attempt, f.retry_count)
                  THEN [f EXCEPT !.log = logged, !.at = "sleep"]
                  ELSE [f EXCEPT !.log = logged, !.at = "returned", !.result = None]>>
    /\ UNCHANGED <<pvars, cvars, wvars, bOut>>

\* time.sleep(sleep_time), and the next value of the loop variable
FSleep ==
    /\ kOut[1].at = "sleep"
    /\ kOut' = <<[kOut[1] EXCEPT !.log = Append(@, <<"sleep", sleep_time(kOut[1].attempt)>>),
                                 !.attempt = @ + 1, !.at = "for"]>>
    /\ UNCHANGED <<pvars, cvars, wvars, bOut>>

\* the range is used up: the return None after the loop
FExhausted ==
    /\ kOut[1].at = "for"
    /\ kOut[1].attempt >= kOut[1].retry_count
    /\ kOut' = <<[kOut[1] EXCEPT !.at = "returned", !.result = None]>>
    /\ UNCHANGED <<pvars, cvars, wvars, bOut>>

FetchNext == FAttempt \/ FSleep \/ FExhausted

SpecFetch == FetchInit /\ [][FetchNext]_vars

\* the frame of the call, the positions of its log that are attempts, and
\* whether the call has returned
Frame == kOut[1]

Attempts == {i \in 1..Len(Frame.log) : Frame.log[i][1] = "attempt"}

Returned == Frame.at = "returned"

\* the position i of the log is its last, and the call has returned with v
EndsWith(i, v) == i = Len(Frame.log) /\ Returned /\ Frame.result = v

\* the position i of the log is followed by the event e, or by nothing yet
\* while the call stands at the place where e comes next
ThenComes(i, e, place) ==
    IF i < Len(Frame.log) THEN Frame.log[i + 1] = e
    ELSE Frame.at = place

\* C30: fetch_stock_data makes at most retry_count attempts, numbered from 0
\* in order; an attempt that raises is followed by a sleep of
\* RETRY_DELAY * RETRY_BACKOFF^attempt and then by the next attempt, unless it
\* was attempt retry_count - 1, after which the call returns None with no
\* sleep; an attempt that answers nothing ends the call with None at once; the
\* first attempt that answers rows ends the call with those rows; every sleep
\* follows a raising attempt that was not the last, and a call that has
\* returned never has a sleep as its last event.
C30_RetryProtocol ==
    LET log == Frame.log
        rc  == Frame.retry_count
    IN  /\ Cardinality(Attempts) <= rc
        /\ \A i \in 1..Len(log) :
              IF log[i][1] = "attempt"
              THEN LET k == log[i][2]
                   IN  /\ k = Cardinality({j \in Attempts : j < i})
                       /\ log[i][3] = "raises" /\ k < rc - 1 =>
                             /\ ThenComes(i, <<"sleep", RETRY_DELAY * Pow(RETRY_BACKOFF, k)>>,
                                          "sleep")
                             /\ i + 1 <= Len(log) =>
                                   /\ ~EndsWith(i + 1, Frame.result)
                                   /\ i + 2 <= Len(log) =>
                                         log[i + 2][1] = "attempt" /\ log[i + 2][2] = k + 1
                       /\ log[i][3] = "raises" /\ k >= rc - 1 => EndsWith(i, None)
                       /\ log[i][3] = "empty" => EndsWith(i, None)
                       /\ log[i][3] = "rows" =>
                             /\ i = Len(log) /\ Returned
                             /\ \E version \in 0..1 :
                                   Frame.result =
                                       FetchedBatch(Frame.start_date, Frame.end_date, version)
                             /\ \A j \in Attempts : j < i => log[j][3] = "raises"
              ELSE /\ i > 1
                   /\ log[i - 1][1] = "attempt"
                   /\ log[i - 1][3] = "raises"
                   /\ log[i - 1][2] < rc - 1
        /\ Returned /\ Frame.result # None => log # <<>> /\ log[Len(log)][3] = "rows"

\* C30 happens: three attempts raise, with sleeps of 2 and 4 seconds between
\* them and none after the third, and the call returns None
C30_Witness ==
    /\ Frame.retry_count = MAX_RETRIES
    /\ Returned
    /\ Frame.result = None
    /\ Frame.log = <<<<"attempt", 0, "raises">>, <<"sleep", 2>>, <<"attempt", 1, "raises">>,
                     <<"sleep", 4>>, <<"attempt", 2, "raises">>>>

\* C30 happens: the second attempt answers rows and they are returned
C30_WitnessRows ==
    /\ Returned
    /\ Frame.log = <<<<"attempt", 0, "raises">>, <<"sleep", 2>>, <<"attempt", 1, "rows">>>>
    /\ Frame.result = FetchedBatch(1, 3, 1)

\* C30 happens: an empty answer on the first of three attempts ends the call
C30_WitnessEmpty ==
    /\ Frame.retry_count = MAX_RETRIES
    /\ Returned
    /\ Frame.result = None
    /\ Frame.log = <<<<"attempt", 0, "empty">>>>

====
